---- MODULE Spec2Model ----
(***************************************************************************)
(* A model of the flipper message runtime (fmr): the host-side invocation  *)
(* engine (lf_invoke, lf_push, lf_pull, lf_send, lf_recieve, lf_ram_load,  *)
(* lf_load_configuration), the byte channel between host and device, and   *)
(* the device-side receive loop (uart0_isr) with fmr_perform.              *)
(*                                                                         *)
(* Packets, results and raw payloads are sequences of bytes (0..255).      *)
(* 64-bit quantities are kept as 8 little-endian bytes.                    *)
(***************************************************************************)
EXTENDS Integers, Sequences, FiniteSets, TLC

VARIABLES
    hpc,        \* host: position inside the running host operation
    hop,        \* host: the running operation and its inputs
    himg,       \* host: the packet image built by the running operation
    hlog,       \* host: the endpoint calls made by the running operation
    hfail,      \* host: whether an endpoint call of the operation failed
    herr,       \* host: the thread-local error slot
    hres,       \* host: the Result structure of the running operation
    hret,       \* host: the value the operation returned
    hbuf,       \* host: the bytes pulled into the operation's buffer
    hcfg,       \* host: the configuration stored in the device record
    opsDone,    \* host: number of operations started so far
    unanswered, \* host: packets pushed whose Result was not pulled yet
    h2d,        \* channel: bytes in flight from host to device
    d2h,        \* channel: bytes in flight from device to host
    marks,      \* channel: the positions in h2d at which a host packet starts
    dpc,        \* device: position inside uart0_isr
    rxen,       \* device: whether the PDC receiver is enabled
    packet,     \* device: the single static packet buffer
    result,     \* device: the Result of the packet being handled
    derr,       \* device: the error slot
    dlog,       \* device: what was done for the packet being handled
    aligned,    \* device: whether the buffer was filled from a packet start
    owed,       \* device: packets received and not yet answered
    flipper,    \* library: the driver structure; .device is the selected device
    attached,   \* library: the live device records, by address
    i2c,     \* library: the module structure handed to lf_bind
    fld_modules,          \* device: the identifiers in the loader table
    fmr_module_is_signed, \* build: whether the fmr_module type is signed
    lcalls      \* library: the calls made so far and what they returned

vars == <<hpc, hop, himg, hlog, hfail, herr, hres, hret, hbuf, hcfg, opsDone, unanswered,
          h2d, d2h, marks, dpc, rxen, packet, result, derr, dlog, aligned, owed,
          flipper, attached, i2c, fld_modules, fmr_module_is_signed, lcalls>>

hostVars == <<hpc, hop, himg, hlog, hfail, herr, hres, hret, hbuf, hcfg, opsDone,
              unanswered>>
devVars == <<dpc, rxen, packet, result, derr, dlog, aligned, owed>>
libVars == <<flipper, attached, i2c, fld_modules, fmr_module_is_signed, lcalls>>

-----------------------------------------------------------------------------
(* Bounds of the model. *)

\* The number of host operations in one run.
MaxOps == 2
\* The largest raw payload of a bulk operation, in bytes.
MaxRaw == 2

-----------------------------------------------------------------------------
(* Bytes and little-endian words. *)

RECURSIVE Xor(_, _, _)
\* Bitwise exclusive or of the low n bits of a and b.
Xor(a, b, n) ==
    IF n = 0 THEN 0
    ELSE CHOOSE r \in {(((x % 2) + (y % 2)) % 2) + 2 * Xor(x \div 2, y \div 2, m - 1) :
                          x \in {a}, y \in {b}, m \in {n}} : TRUE

Zeros(n) == SubSeq([i \in 1..n |-> 0], 1, n)
Ones(n) == SubSeq([i \in 1..n |-> 255], 1, n)

\* The n-byte little-endian image of a number below 2^31.
RECURSIVE LE(_, _)
LE(x, n) == IF n = 0 THEN <<>> ELSE <<x % 256>> \o LE(x \div 256, n - 1)

\* The 16-bit little-endian word at byte offset off (0-based) of buf.
Get16(buf, off) == buf[off + 1] + 256 * buf[off + 2]

\* buf with bytes written at byte offset off (0-based); the image grows when
\* the write runs past its end.
Put(buf, off, bytes) ==
    SubSeq(buf, 1, off) \o bytes \o SubSeq(buf, off + Len(bytes) + 1, Len(buf))

Prefix(s, n) == SubSeq(s, 1, IF n < Len(s) THEN n ELSE Len(s))
Drop(s, n) == SubSeq(s, n + 1, Len(s))

IsPrefix(p, s) == Len(p) <= Len(s) /\ SubSeq(s, 1, Len(p)) = p

-----------------------------------------------------------------------------
(* Constants of the wire format. *)

FMR_MAGIC_NUMBER == 65050       \* 0xFE1A
FMR_PACKET_SIZE == 64           \* sizeof(struct _fmr_packet)
FMR_HEADER_SIZE == 8            \* sizeof(struct _fmr_header)
FMR_INVOCATION_SIZE == 20       \* sizeof(struct _fmr_invocation_packet)
FMR_PUSH_PULL_SIZE == 24        \* sizeof(struct _fmr_push_pull_packet)
FMR_RESULT_SIZE == 12           \* sizeof(struct _fmr_result)
LF_CONFIGURATION_SIZE == 21     \* sizeof(struct _lf_configuration)
FMR_USER_INVOCATION_BIT == 128  \* high bit of the module index
FMR_MAX_ARGC == 16

\* Byte offsets of the header fields.
OFF_MAGIC == 0
OFF_CHECKSUM == 2
OFF_LENGTH == 4
OFF_CLASS == 6

\* Packet classes.
fmr_configuration_class == 0
fmr_standard_invocation_class == 1
fmr_user_invocation_class == 2
fmr_ram_load_class == 3
fmr_send_class == 4
fmr_push_class == 5
fmr_receive_class == 6
fmr_pull_class == 7
fmr_event_class == 8

\* The error codes, in the order of the enumeration; the wire carries the
\* position of the name.
lf_errors == <<"E_OK", "E_MALLOC", "E_NULL", "E_OVERFLOW", "E_NO_DEVICE",
               "E_ENDPOINT", "E_CHECKSUM", "E_SUBCLASS", "E_TYPE", "E_MODULE",
               "E_NAME", "E_FMR", "E_TEST">>

ErrCode(e) == CHOOSE i \in 0..(Len(lf_errors) - 1) : lf_errors[i + 1] = e
ErrName(c) == IF c < Len(lf_errors) THEN lf_errors[c + 1] ELSE "E_UNKNOWN"

\* Wire types.
fmr_int8_t == 0
fmr_int16_t == 1
fmr_void_t == 2
fmr_int32_t == 3
fmr_int_t == 4
fmr_ptr_t == 6
fmr_int64_t == 7

\* Width in bytes of a value of the given type on a 32-bit device.
fmr_sizeof(type) ==
    CASE type % 8 = 0 -> 1
      [] type % 8 = 1 -> 2
      [] type % 8 = 2 -> 0
      [] type % 8 = 3 -> 4
      [] type % 8 = 4 -> 4
      [] type % 8 = 6 -> 4
      [] type % 8 = 7 -> 8
      [] OTHER -> 0

-----------------------------------------------------------------------------
(* lf_crc: CRC-16, polynomial 0x1021, seed 0xFFFF, most significant bit    *)
(* first, over the first `length` bytes of a buffer.                       *)

CrcByte(crc, byte) ==
    CHOOSE r \in {Xor(Xor((crc * 256) % 65536, (x * 4096) % 65536, 16),
                      Xor(x * 32, x, 16), 16) :
                    x \in {Xor(x0, x0 \div 16, 8) :
                             x0 \in {Xor(crc \div 256, byte, 8)}}} : TRUE

RECURSIVE CrcFrom(_, _, _, _)
\* The checksum register after bytes i..n of buf, starting from crc. The
\* range is cut in two halves, the second continuing from the first.
CrcFrom(crc, buf, i, n) ==
    IF i > n THEN crc
    ELSE IF i = n THEN CrcByte(crc, buf[i])
    ELSE CHOOSE r \in {CrcFrom(c, b, k + 1, m) :
                          c \in {CrcFrom(crc, buf, i, k) : k \in {(i + n) \div 2}},
                          b \in {buf}, k \in {(i + n) \div 2}, m \in {n}} : TRUE

lf_crc(buf, length) == CrcFrom(65535, buf, 1, length)

-----------------------------------------------------------------------------
(* Arguments and fmr_create_call.                                          *)

\* An argument is a type tag and a 64-bit holding cell (8 bytes).
Arg(type, value) == [type |-> type, value |-> value]

RECURSIVE Or(_, _, _)
\* Bitwise or of the low n bits of a and b.
Or(a, b, n) ==
    IF n = 0 THEN 0
    ELSE (IF (a % 2) + (b % 2) > 0 THEN 1 ELSE 0) + 2 * Or(a \div 2, b \div 2, n - 1)

\* The 16 nibbles that `(arg->type & 0xF) << (i * 4)` contributes to the
\* 64-bit types word. The shift is done in a 32-bit int: a count of 32 or
\* more is undefined, and `ub` names what the build makes of it ("wrap": the
\* count is taken modulo 32, "zero": the result is 0). A value with bit 31 set
\* is negative and sign-extends into the upper half of the word.
TypeNibbles(type, i, ub) ==
    LET t == type % 16
        pos == IF i < 8 THEN i ELSE IF ub = "wrap" THEN i % 8 ELSE 16
    IN  [n \in 0..15 |->
            IF n = pos THEN t
            ELSE IF pos = 7 /\ t >= 8 /\ n > 7 THEN 15
            ELSE 0]

RECURSIVE TypesFrom(_, _, _, _)
\* call->types after arguments i.. of the list have been or-ed into acc.
TypesFrom(acc, args, i, ub) ==
    IF i > Len(args) THEN acc
    ELSE LET c == TypeNibbles(args[i].type, i - 1, ub)
         IN  TypesFrom([n \in 0..15 |-> Or(acc[n], c[n], 4)], args, i + 1, ub)

\* The 8 little-endian bytes of a word given by its 16 nibbles.
NibblesToBytes(w) ==
    SubSeq([b \in 1..8 |-> w[2 * (b - 1)] + 16 * w[2 * (b - 1) + 1]], 1, 8)

RECURSIVE ParamBytes(_, _)
\* The parameter segment: each argument's low fmr_sizeof(type) bytes, in order.
ParamBytes(args, i) ==
    IF i > Len(args) THEN <<>>
    ELSE SubSeq(args[i].value, 1, fmr_sizeof(args[i].type)) \o ParamBytes(args, i + 1)

\* fmr_create_call on the packet image img whose call structure starts at
\* byte offset callOff: sets index, function, ret, argc and types, copies the
\* parameters and adds their size to header.length. Nothing checks the
\* parameters against the size of the packet: the image grows past
\* FMR_PACKET_SIZE when they do not fit.
fmr_create_call(module, function, ret, args, img, callOff, ub) ==
    LET params == ParamBytes(args, 1)
        types == NibblesToBytes(TypesFrom([n \in 0..15 |-> 0], args, 1, ub))
        i1 == Put(img, callOff, <<module % 256, function % 256, ret % 256, Len(args) % 256>>)
        i2 == Put(i1, callOff + 4, types)
        i3 == Put(i2, callOff + 12, params)
    IN  Put(i3, OFF_LENGTH, LE((Get16(img, OFF_LENGTH) + Len(params)) % 65536, 2))

\* What the host encoded into a call structure.
Encoded(module, function, ret, args, ub) ==
    [index |-> module % 256, function |-> function % 256, ret |-> ret % 256,
     argc |-> Len(args) % 256,
     types |-> NibblesToBytes(TypesFrom([n \in 0..15 |-> 0], args, 1, ub)),
     parameters |-> ParamBytes(args, 1)]

\* A zeroed packet with magic, length and class set.
NewPacket(length, class) ==
    Put(Put(Put(Zeros(FMR_PACKET_SIZE), OFF_MAGIC, LE(FMR_MAGIC_NUMBER, 2)),
            OFF_LENGTH, LE(length, 2)),
        OFF_CLASS, <<class>>)

\* packet.header.checksum = lf_crc(packet, packet.header.length)
StoreChecksum(img) ==
    Put(img, OFF_CHECKSUM, LE(lf_crc(img, Get16(img, OFF_LENGTH)), 2))

-----------------------------------------------------------------------------
(* The device: registry, fmr_execute, fmr_perform.                         *)

NULL == "NULL"

\* fmr_modules: each module is a table of entry points.
fmr_modules == << <<"f_seven", "f_minus1", NULL>>, <<"f_raise">> >>

\* The native call of an entry point: the 64-bit value handed back and the
\* error the function raises while it runs.
fmr_call(address, ret, argc, argt, arguments) ==
    CASE address = "f_seven"  -> [value |-> <<7, 0, 0, 0, 0, 0, 0, 0>>, raised |-> "E_OK"]
      [] address = "f_minus1" -> [value |-> Ones(8), raised |-> "E_OK"]
      [] address = "f_raise"  -> [value |-> <<5, 0, 0, 0, 0, 0, 0, 0>>, raised |-> "E_TEST"]
      [] OTHER                -> [value |-> Zeros(8), raised |-> "E_OK"]

\* lf_error_raise: stores the error in the slot.
lf_error_raise(slot, error) == error

\* lf_error_get: hands back the error in the slot and clears the slot.
lf_error_get(slot) == [error |-> slot, slot |-> "E_OK"]

\* The address fmr_execute reads from the registry; an index outside the
\* tables reads memory past them, and `wild` is what is found there.
EntryPoint(module, function, wild) ==
    IF module + 1 \in DOMAIN fmr_modules /\ function + 1 \in DOMAIN fmr_modules[module + 1]
    THEN fmr_modules[module + 1][function + 1]
    ELSE wild

\* fmr_execute: [value, slot, called].
fmr_execute(module, function, ret, argc, argt, arguments, slot, wild) ==
    LET address == EntryPoint(module, function, wild)
    IN  IF address = NULL
        THEN [value |-> Ones(8), slot |-> lf_error_raise(slot, "E_NULL"), called |-> NULL]
        ELSE LET r == fmr_call(address, ret, argc, argt, arguments)
             IN  [value |-> r.value,
                  slot |-> IF r.raised = "E_OK" THEN slot ELSE lf_error_raise(slot, r.raised),
                  called |-> address]

\* The call structure found at byte offset callOff of a packet buffer.
CallAt(pkt, callOff) ==
    [index |-> pkt[callOff + 1], function |-> pkt[callOff + 2],
     ret |-> pkt[callOff + 3], argc |-> pkt[callOff + 4],
     types |-> SubSeq(pkt, callOff + 5, callOff + 12),
     parameters |-> SubSeq(pkt, callOff + 13, Len(pkt))]

\* The device-side fmr_push and fmr_pull: empty functions. They move no
\* byte; the value fmr_perform reads as their return is whatever the return
\* register holds (`stub`).
fmr_push(pkt, stub) == [value |-> stub, consumed |-> 0]
fmr_pull(pkt, stub) == [value |-> stub, transmitted |-> <<>>]

\* The condition of the lf_assert in the default branch of fmr_perform.
DefaultBranchCondition == TRUE

\* fmr_perform(&packet, &result) with the error slot `slot`.
\*   oob  : the CRC lf_crc returns when header.length runs past the buffer
\*   stub : the return register after the empty fmr_push / fmr_pull
\*   wild : the registry entry read for an index outside the tables
\* Gives the packet buffer afterwards (checksum zeroed), the Result, the
\* return value, the slot and the log of what ran.
fmr_perform(pkt, res, slot, oob, stub, wild) ==
    IF Get16(pkt, OFF_MAGIC) # FMR_MAGIC_NUMBER
    THEN [packet |-> pkt, value |-> res.value,
          error |-> lf_error_get(lf_error_raise(slot, "E_CHECKSUM")).error,
          ret |-> "lf_error", slot |-> lf_error_get(slot).slot, log |-> <<>>]
    ELSE
    LET _crc == Get16(pkt, OFF_CHECKSUM)
        p0 == Put(pkt, OFF_CHECKSUM, <<0, 0>>)
        length == Get16(pkt, OFF_LENGTH)
        crc == IF length <= Len(p0) THEN lf_crc(p0, length) ELSE oob
        crclog == <<[ev |-> "lf_crc", length |-> length]>>
    IN  IF _crc # crc
        THEN [packet |-> p0, value |-> res.value,
              error |-> lf_error_get(lf_error_raise(slot, "E_CHECKSUM")).error,
              ret |-> "lf_error", slot |-> lf_error_get(slot).slot, log |-> crclog]
        ELSE
        LET class == p0[OFF_CLASS + 1]
            call == CallAt(p0, FMR_HEADER_SIZE)
        IN  CASE class = fmr_standard_invocation_class ->
                   LET x == fmr_execute(call.index, call.function, call.ret, call.argc,
                                        call.types, call.parameters, slot, wild)
                   IN  [packet |-> p0, value |-> x.value, error |-> lf_error_get(x.slot).error,
                        ret |-> "lf_success", slot |-> lf_error_get(x.slot).slot,
                        log |-> crclog \o <<[ev |-> "fmr_execute", call |-> call,
                                             called |-> x.called]>>]
              [] class = fmr_user_invocation_class ->
                   [packet |-> p0, value |-> res.value, error |-> lf_error_get(slot).error,
                    ret |-> "lf_success", slot |-> lf_error_get(slot).slot,
                    log |-> crclog \o <<[ev |-> "fmr_perform_user_invocation"]>>]
              [] class \in {fmr_ram_load_class, fmr_send_class, fmr_push_class} ->
                   [packet |-> p0, value |-> fmr_push(p0, stub).value, error |-> lf_error_get(slot).error,
                    ret |-> "lf_success", slot |-> lf_error_get(slot).slot,
                    log |-> crclog \o <<[ev |-> "fmr_push",
                                         consumed |-> fmr_push(p0, stub).consumed]>>]
              [] class \in {fmr_receive_class, fmr_pull_class} ->
                   [packet |-> p0, value |-> fmr_pull(p0, stub).value, error |-> lf_error_get(slot).error,
                    ret |-> "lf_success", slot |-> lf_error_get(slot).slot,
                    log |-> crclog \o <<[ev |-> "fmr_pull",
                                         transmitted |-> fmr_pull(p0, stub).transmitted]>>]
              [] class = fmr_event_class ->
                   [packet |-> p0, value |-> res.value, error |-> lf_error_get(slot).error,
                    ret |-> "lf_success", slot |-> lf_error_get(slot).slot, log |-> crclog]
              [] OTHER ->
                   IF DefaultBranchCondition
                   THEN [packet |-> p0, value |-> res.value, error |-> lf_error_get(slot).error,
                         ret |-> "lf_success", slot |-> lf_error_get(slot).slot, log |-> crclog]
                   ELSE [packet |-> p0, value |-> res.value,
                         error |-> lf_error_get(lf_error_raise(slot, "E_SUBCLASS")).error,
                         ret |-> "lf_error", slot |-> lf_error_get(slot).slot, log |-> crclog]

-----------------------------------------------------------------------------
(* The device receive loop: system_task arms the receiver, uart0_isr       *)
(* handles each filled buffer.                                             *)

\* What the undefined reads of fmr_perform can yield for a packet.
OobOutcomes(pkt) ==
    IF Get16(pkt, OFF_LENGTH) > Len(pkt)
    THEN {Get16(pkt, OFF_CHECKSUM), (Get16(pkt, OFF_CHECKSUM) + 1) % 65536}
    ELSE {0}
StubOutcomes(pkt) ==
    IF pkt[OFF_CLASS + 1] \in {fmr_ram_load_class, fmr_send_class, fmr_push_class,
                               fmr_receive_class, fmr_pull_class}
    THEN {Zeros(8), Ones(8)}
    ELSE {Zeros(8)}
WildOutcomes(pkt) ==
    IF pkt[OFF_CLASS + 1] = fmr_standard_invocation_class
       /\ EntryPoint(pkt[FMR_HEADER_SIZE + 1], pkt[FMR_HEADER_SIZE + 2], "wild") = "wild"
    THEN {NULL, "wild"}
    ELSE {NULL}

ResultBytes(res) == res.value \o LE(ErrCode(res.error), 4)

\* uart0_isr that leaves the receiver enabled while it handles the packet.
uart0_isr_enter_enabled ==
    /\ rxen
    /\ Len(h2d) >= FMR_PACKET_SIZE
    /\ packet' = Prefix(h2d, FMR_PACKET_SIZE)
    /\ h2d' = Drop(h2d, FMR_PACKET_SIZE)
    /\ aligned' = (1 \in marks)
    /\ marks' = {m - FMR_PACKET_SIZE : m \in {k \in marks : k > FMR_PACKET_SIZE}}
    /\ rxen' = TRUE
    /\ dlog' = <<[ev |-> "ENDRX", packet |-> Prefix(h2d, FMR_PACKET_SIZE)]>>
    /\ owed' = owed + 1
    /\ dpc' = "perform"
    /\ UNCHANGED <<hostVars, libVars, d2h, result, derr>>

\* The enabled receiver has filled the packet buffer: ENDRX is raised and
\* uart0_isr disables the receiver and clears the flag.
uart0_isr_enter ==
    /\ rxen
    /\ Len(h2d) >= FMR_PACKET_SIZE
    /\ packet' = Prefix(h2d, FMR_PACKET_SIZE)
    /\ h2d' = Drop(h2d, FMR_PACKET_SIZE)
    /\ aligned' = (1 \in marks)
    /\ marks' = {m - FMR_PACKET_SIZE : m \in {k \in marks : k > FMR_PACKET_SIZE}}
    /\ rxen' = FALSE
    /\ dlog' = <<[ev |-> "ENDRX", packet |-> Prefix(h2d, FMR_PACKET_SIZE)]>>
    /\ owed' = owed + 1
    /\ dpc' = "perform"
    /\ UNCHANGED <<hostVars, libVars, d2h, result, derr>>

\* uart0_isr with the Result left uninitialised before fmr_perform.
uart0_isr_perform_uninitialised ==
    /\ dpc = "perform"
    /\ \E oob \in OobOutcomes(packet), stub \in StubOutcomes(packet),
          wild \in WildOutcomes(packet) :
       \E r \in {fmr_perform(packet, [value |-> Ones(8), error |-> "E_OK"],
                             derr, oob, stub, wild)} :
          /\ packet' = r.packet
          /\ result' = [value |-> r.value, error |-> r.error]
          /\ derr' = r.slot
          /\ dlog' = dlog \o r.log \o <<[ev |-> "fmr_perform", ret |-> r.ret]>>
    /\ dpc' = "reply"
    /\ UNCHANGED <<hostVars, libVars, h2d, d2h, marks, rxen, aligned, owed>>

\* uart0_isr whose fmr_perform reads the error slot without clearing it.
uart0_isr_perform_latching ==
    /\ dpc = "perform"
    /\ \E oob \in OobOutcomes(packet), stub \in StubOutcomes(packet),
          wild \in WildOutcomes(packet) :
       \E r \in {fmr_perform(packet, [value |-> Zeros(8), error |-> "E_OK"],
                             derr, oob, stub, wild)} :
          /\ packet' = r.packet
          /\ result' = [value |-> r.value, error |-> r.error]
          /\ derr' = r.error
          /\ dlog' = dlog \o r.log \o <<[ev |-> "fmr_perform", ret |-> r.ret]>>
    /\ dpc' = "reply"
    /\ UNCHANGED <<hostVars, libVars, h2d, d2h, marks, rxen, aligned, owed>>

\* struct _fmr_result result = { 0 }; fmr_perform(&packet, &result);
uart0_isr_perform ==
    /\ dpc = "perform"
    /\ \E oob \in OobOutcomes(packet), stub \in StubOutcomes(packet),
          wild \in WildOutcomes(packet) :
       \E r \in {fmr_perform(packet, [value |-> Zeros(8), error |-> "E_OK"],
                             derr, oob, stub, wild)} :
          /\ packet' = r.packet
          /\ result' = [value |-> r.value, error |-> r.error]
          /\ derr' = r.slot
          /\ dlog' = dlog \o r.log \o <<[ev |-> "fmr_perform", ret |-> r.ret]>>
    /\ dpc' = "reply"
    /\ UNCHANGED <<hostVars, libVars, h2d, d2h, marks, rxen, aligned, owed>>

\* uart0_isr without the push of the Result.
uart0_isr_reply_nothing ==
    /\ dpc = "reply"
    /\ dpc' = "rearm"
    /\ UNCHANGED <<hostVars, libVars, h2d, d2h, marks, rxen, packet, result, derr, dlog, aligned,
                   owed>>

\* uart0_push(&result, sizeof(struct _fmr_result));
uart0_isr_reply ==
    /\ dpc = "reply"
    /\ d2h' = d2h \o ResultBytes(result)
    /\ dlog' = dlog \o <<[ev |-> "uart0_push", what |-> "result"]>>
    /\ owed' = owed - 1
    /\ dpc' = "rearm"
    /\ UNCHANGED <<hostVars, libVars, h2d, marks, rxen, packet, result, derr, aligned>>

\* uart0_isr that returns without handing the buffer back to the receiver.
uart0_isr_rearm_disabled ==
    /\ dpc = "rearm"
    /\ dpc' = "armed"
    /\ packet' = Zeros(FMR_PACKET_SIZE)
    /\ result' = [value |-> Zeros(8), error |-> "E_OK"]
    /\ dlog' = <<>>
    /\ UNCHANGED <<hostVars, libVars, h2d, d2h, marks, rxen, derr, aligned, owed>>

\* uart0_pull(&packet, sizeof(struct _fmr_packet)); and the return from the
\* interrupt. The buffer is handed back to the PDC, which fills all of it
\* before the next ENDRX: its old contents are read by nothing and the model
\* forgets them, as it does the locals of the handler.
uart0_isr_rearm ==
    /\ dpc = "rearm"
    /\ rxen' = TRUE
    /\ dpc' = "armed"
    /\ packet' = Zeros(FMR_PACKET_SIZE)
    /\ result' = [value |-> Zeros(8), error |-> "E_OK"]
    /\ dlog' = <<>>
    /\ UNCHANGED <<hostVars, libVars, h2d, d2h, marks, derr, aligned, owed>>

DevNext == uart0_isr_enter \/ uart0_isr_perform \/ uart0_isr_reply \/ uart0_isr_rearm

-----------------------------------------------------------------------------
(* The host: inputs of the operations.                                     *)

\* Host-side module records: the index bound on the device and the device
\* the module points at.
ModuleRecord(ptr, index, device) == [ptr |-> ptr, index |-> index, device |-> device]
Module0 == ModuleRecord("module", 0, "dev")
Module1 == ModuleRecord("module", 1, "dev")
ModuleUser == ModuleRecord("module", FMR_USER_INVOCATION_BIT, "dev")
ModuleUnbound == ModuleRecord("module", 255, "dev")
ModuleNoDevice == ModuleRecord("module", 0, NULL)
NoModule == ModuleRecord(NULL, 0, NULL)

U8(v) == Arg(fmr_int8_t, <<v, 0, 0, 0, 0, 0, 0, 0>>)
U64(v) == Arg(fmr_int64_t, <<v, 1, 2, 3, 4, 5, 6, 7>>)
fmr_int16_s == fmr_int16_t + 8

\* The inputs of lf_invoke: module, function, return type, argument list.
\* The lists are: none, the three bytes of an RGB write, and six 64-bit
\* values, whose 48 bytes do not fit the 44 left in a packet.
Invocations ==
    {<<Module0, 0, fmr_void_t, <<>>>>,
     <<Module0, 0, fmr_void_t, <<U8(10), U8(20), U8(30)>>>>,
     <<Module0, 1, fmr_int16_s, <<>>>>,
     <<Module0, 2, fmr_void_t, <<>>>>,
     <<Module1, 0, fmr_void_t, <<U8(1)>>>>,
     <<ModuleUser, 0, fmr_void_t, <<>>>>,
     <<ModuleUnbound, 0, fmr_void_t, <<>>>>,
     <<ModuleNoDevice, 0, fmr_void_t, <<>>>>,
     <<NoModule, 0, fmr_void_t, <<>>>>,
     <<Module0, 0, fmr_void_t, <<U64(1), U64(2), U64(3), U64(4), U64(5), U64(6)>>>>}

\* What the build makes of the oversized shifts of fmr_create_call.
ShiftOutcomes(args) == IF Len(args) > 8 THEN {"wrap", "zero"} ELSE {"wrap"}

\* The host buffer of a bulk operation and its address as an argument.
HostBuffers == {"buf", NULL}
BufferAddress == <<16, 32, 48, 64, 0, 0, 0, 0>>
Payload(source, length) ==
    SubSeq([i \in 1..length |-> IF source = NULL THEN 0 ELSE 160 + i], 1, length)
U32(n) == Arg(fmr_int32_t, LE(n, 4) \o Zeros(4))

\* The inputs of lf_push and lf_pull: module, function, buffer, length.
BulkModuleInputs ==
    {<<Module0, 0, b, n>> : b \in HostBuffers, n \in 0..MaxRaw}
    \cup {<<ModuleNoDevice, 0, "buf", 1>>, <<NoModule, 0, "buf", 1>>}

\* The inputs of lf_send, lf_recieve and lf_ram_load: device, buffer, length.
BulkDeviceInputs ==
    {<<"dev", b, n>> : b \in HostBuffers, n \in 0..MaxRaw} \cup {<<NULL, "buf", 1>>}

\* fmr_ptr and fmr_infer of the two leading arguments of lf_push / lf_pull.
BulkArgs(buffer, length) ==
    <<Arg(fmr_int32_t, IF buffer = NULL THEN Zeros(8) ELSE BufferAddress), U32(length)>>

\* The identifier of the attached device and of the device record.
DeviceIdentifier == <<19, 199>>

\* Values found in a Result structure that was never filled.
Uninitialised == {Zeros(8), <<239, 190, 173, 222, 0, 0, 0, 0>>}

NoOp == [fn |-> "none", module |-> NoModule, function |-> 0, ret |-> 0, args |-> <<>>,
         ub |-> "wrap", buffer |-> NULL, length |-> 0, device |-> NULL]
NoResult == [valid |-> FALSE, value |-> Zeros(8), error |-> "E_OK"]

lf_error == Ones(8)
lf_success == Zeros(8)

-----------------------------------------------------------------------------
(* The host: endpoint calls and the shared steps.                          *)

EpCall(call, what, len) == [call |-> call, what |-> what, len |-> len]

\* The Result structure read from 12 bytes.
ResultOfBytes(b) ==
    [valid |-> TRUE, value |-> SubSeq(b, 1, 8),
     error |-> IF b[10] = 0 /\ b[11] = 0 /\ b[12] = 0 THEN ErrName(b[9]) ELSE "E_UNKNOWN"]

\* The device has handled everything sent to it.
DeviceCaughtUp == dpc = "armed" /\ Len(h2d) < FMR_PACKET_SIZE

\* An operation starts. Operations are issued one at a time, against a
\* device that has caught up with the previous one.
Begin(op) ==
    /\ hpc = "idle"
    /\ opsDone < MaxOps
    /\ DeviceCaughtUp
    /\ opsDone' = opsDone + 1
    /\ hop' = op

\* An operation that returns early without raising its error.
ReturnEarly_silent(ret, err) ==
    /\ hpc' = "returned"
    /\ hret' = ret
    /\ UNCHANGED <<himg, hlog, hfail, herr, hres, hbuf, hcfg, unanswered, h2d, d2h, marks,
                   devVars, libVars>>

\* An operation returns before it has touched the endpoint.
ReturnEarly(ret, err) ==
    /\ hpc' = "returned"
    /\ hret' = ret
    /\ herr' = err
    /\ UNCHANGED <<himg, hlog, hfail, hres, hbuf, hcfg, unanswered, h2d, d2h, marks,
                   devVars, libVars>>

\* lf_transfer that raises nothing when the push failed.
lf_transfer_silent(img, ok, next, fail, slot) ==
    /\ himg' = img
    /\ hlog' = <<EpCall("push", "packet", FMR_PACKET_SIZE)>>
    /\ IF ok
       THEN /\ h2d' = h2d \o Prefix(img, FMR_PACKET_SIZE)
            /\ marks' = marks \cup {Len(h2d) + 1}
            /\ unanswered' = unanswered + 1
            /\ hfail' = FALSE
            /\ hpc' = next
            /\ herr' = slot
            /\ UNCHANGED hret
       ELSE /\ hfail' = TRUE
            /\ herr' = slot
            /\ hpc' = "returned"
            /\ hret' = fail
            /\ UNCHANGED <<h2d, marks, unanswered>>
    /\ UNCHANGED <<hres, hbuf, hcfg, d2h, devVars, libVars>>

\* lf_transfer: push the whole packet buffer through the endpoint; on
\* failure raise E_ENDPOINT. `next` is where the caller continues, `fail`
\* what it returns when the transfer failed, `slot` the error slot so far.
lf_transfer(img, ok, next, fail, slot) ==
    /\ himg' = img
    /\ hlog' = <<EpCall("push", "packet", FMR_PACKET_SIZE)>>
    /\ IF ok
       THEN /\ h2d' = h2d \o Prefix(img, FMR_PACKET_SIZE)
            /\ marks' = marks \cup {Len(h2d) + 1}
            /\ unanswered' = unanswered + 1
            /\ hfail' = FALSE
            /\ hpc' = next
            /\ herr' = slot
            /\ UNCHANGED hret
       ELSE /\ hfail' = TRUE
            /\ herr' = lf_error_raise(slot, "E_ENDPOINT")
            /\ hpc' = "returned"
            /\ hret' = fail
            /\ UNCHANGED <<h2d, marks, unanswered>>
    /\ UNCHANGED <<hres, hbuf, hcfg, d2h, devVars, libVars>>

\* A bulk operation that goes on to the Result without the raw push.
RawPush_skipped(ok, next, fail) ==
    /\ hpc' = next
    /\ UNCHANGED <<hop, himg, hlog, hfail, herr, hres, hret, hbuf, hcfg, opsDone,
                   unanswered, h2d, d2h, marks, devVars, libVars>>

\* device->endpoint->push(endpoint, source, length) of a raw payload.
RawPush(ok, next, fail) ==
    /\ hlog' = hlog \o <<EpCall("push", "raw", hop.length)>>
    /\ IF ok
       THEN /\ h2d' = h2d \o Payload(hop.buffer, hop.length)
            /\ hpc' = next
            /\ UNCHANGED <<hfail, hret>>
       ELSE /\ hfail' = TRUE
            /\ hpc' = "returned"
            /\ hret' = fail
            /\ UNCHANGED h2d
    /\ UNCHANGED <<hop, himg, herr, hres, hbuf, hcfg, opsDone, unanswered, d2h, marks,
                   devVars, libVars>>

\* device->endpoint->pull(endpoint, destination, n) into the host buffer.
RawPull(what, n, ok, next, fail) ==
    /\ ok => Len(d2h) >= n
    /\ hlog' = hlog \o <<EpCall("pull", what, n)>>
    /\ IF ok
       THEN /\ d2h' = Drop(d2h, n)
            /\ hbuf' = Prefix(d2h, n)
            /\ hpc' = next
            /\ UNCHANGED <<hfail, hret>>
       ELSE /\ hfail' = TRUE
            /\ hpc' = "returned"
            /\ hret' = fail
            /\ UNCHANGED <<d2h, hbuf>>
    /\ UNCHANGED <<hop, himg, herr, hres, hcfg, opsDone, unanswered, h2d, marks,
                   devVars, libVars>>

\* lf_get_result: lf_retrieve pulls a Result (raising E_ENDPOINT when the
\* pull fails); an error in the Result is raised into the error slot.
\* Gives [ret, result, slot, wire]; `garbage` is what the Result structure
\* of the caller holds when nothing was read into it.
lf_get_result(ok, garbage, slot, wire) ==
    IF ~ok
    THEN [ret |-> lf_error,
          result |-> [valid |-> FALSE, value |-> garbage, error |-> "E_OK"],
          slot |-> lf_error_raise(slot, "E_ENDPOINT"), wire |-> wire]
    ELSE LET r == ResultOfBytes(Prefix(wire, FMR_RESULT_SIZE))
         IN  [ret |-> IF r.error # "E_OK" THEN lf_error ELSE lf_success,
              result |-> r,
              slot |-> IF r.error # "E_OK" THEN lf_error_raise(slot, r.error) ELSE slot,
              wire |-> Drop(wire, FMR_RESULT_SIZE)]

\* The outcomes of the Result pull: it succeeds once the bytes are there, or
\* it fails and leaves the caller's structure as it was.
ResultPulls ==
    {<<ok, garbage>> \in BOOLEAN \X Uninitialised :
        ok => (Len(d2h) >= FMR_RESULT_SIZE /\ garbage = Zeros(8))}

\* The address of the block lf_recieve allocates.
Destination == <<128, 0, 0, 1, 0, 0, 0, 0>>

\* What each operation returns after lf_get_result gave g.
ReturnValue(fn, g) ==
    CASE fn = "lf_invoke" -> g.result.value
      [] fn = "lf_push" -> lf_success
      [] fn = "lf_pull" -> lf_success
      [] fn = "lf_send" -> g.result.value
      [] fn = "lf_recieve" -> Destination
      [] fn = "lf_ram_load" -> g.result.value

\* The last step of an operation: lf_get_result, then the return value the
\* operation computes from its outcome.
GetResultAndReturn ==
    \E o \in ResultPulls :
    \E g \in {lf_get_result(o[1], o[2], herr, d2h)} :
        /\ hres' = g.result
        /\ herr' = g.slot
        /\ d2h' = g.wire
        /\ hret' = ReturnValue(hop.fn, g)
        /\ hlog' = hlog \o <<EpCall("pull", "result", FMR_RESULT_SIZE)>>
        /\ hfail' = (hfail \/ ~o[1])
        /\ unanswered' = IF o[1] /\ unanswered > 0 THEN unanswered - 1 ELSE unanswered
        /\ hpc' = "returned"
        /\ UNCHANGED <<hop, himg, hbuf, hcfg, opsDone, h2d, marks, devVars, libVars>>

\* The caller takes the return value and reads the error slot with
\* lf_error_get, which clears it; the locals of the operation are gone.
caller_continue ==
    /\ hpc = "returned"
    /\ hpc' = "idle"
    /\ hop' = NoOp
    /\ himg' = <<>>
    /\ hlog' = <<>>
    /\ hfail' = FALSE
    /\ hres' = NoResult
    /\ hret' = Zeros(8)
    /\ hbuf' = <<>>
    /\ herr' = lf_error_get(herr).slot
    /\ UNCHANGED <<hcfg, opsDone, unanswered, h2d, d2h, marks, devVars, libVars>>

-----------------------------------------------------------------------------
(* The host operations.                                                    *)

Op(fn, module, function, ret, args, ub, buffer, length, device) ==
    [fn |-> fn, module |-> module, function |-> function, ret |-> ret, args |-> args,
     ub |-> ub, buffer |-> buffer, length |-> length, device |-> device]

\* lf_invoke that gives every packet the standard class.
InvokeClass_standard(module) == fmr_standard_invocation_class

\* The class lf_invoke gives the packet.
InvokeClass(module) ==
    IF module.index >= FMR_USER_INVOCATION_BIT
    THEN fmr_user_invocation_class
    ELSE fmr_standard_invocation_class

\* The packet lf_invoke builds.
InvokePacket(module, function, ret, args, ub) ==
    StoreChecksum(
        fmr_create_call(module.index, function, ret, args,
            NewPacket(FMR_INVOCATION_SIZE, InvokeClass(module)), FMR_HEADER_SIZE, ub))

\* lf_invoke up to and including lf_transfer.
lf_invoke ==
    /\ hpc = "idle"
    /\ \E in \in Invocations, ok \in BOOLEAN :
       \E ub \in ShiftOutcomes(in[4]) :
       LET module == in[1] IN
        /\ Begin(Op("lf_invoke", module, in[2], in[3], in[4], ub, NULL, 0, module.device))
        /\ IF module.ptr = NULL
           THEN ReturnEarly(lf_error, lf_error_raise(herr, "E_NULL"))
           ELSE IF module.device = NULL
           THEN ReturnEarly(lf_error, lf_error_raise(herr, "E_NO_DEVICE"))
           ELSE IF module.index = 255
           THEN ReturnEarly(lf_error, lf_error_raise(herr, "E_MODULE"))
           ELSE \E img \in {InvokePacket(module, in[2], in[3], in[4], ub)} :
                    lf_transfer(img, ok, "lf_invoke_result", lf_error, herr)

\* lf_invoke: lf_get_result(device, &result); return result.value;
lf_invoke_result ==
    /\ hpc = "lf_invoke_result"
    /\ GetResultAndReturn

\* The packet of lf_push and lf_pull: a push/pull header, the transfer
\* length and the call with (pointer, length) before the caller's arguments.
PushPullPacket(class, module, function, ret, buffer, length, args, ub) ==
    StoreChecksum(
        fmr_create_call(module.index, function, ret, BulkArgs(buffer, length) \o args,
            Put(NewPacket(FMR_PUSH_PULL_SIZE, class), FMR_HEADER_SIZE, LE(length, 4)),
            FMR_HEADER_SIZE + 4, ub))

\* The packet of lf_send, lf_recieve and lf_ram_load: no call is generated.
BarePacket(class, length) ==
    StoreChecksum(Put(NewPacket(FMR_PUSH_PULL_SIZE, class), FMR_HEADER_SIZE, LE(length, 4)))

\* lf_push and lf_pull up to and including lf_transfer; a NULL buffer raises
\* E_NULL and execution goes on.
BulkModuleEntry(fn, class, next) ==
    \E in \in BulkModuleInputs, ok \in BOOLEAN :
    LET module == in[1]
        buffer == in[3]
        length == in[4]
        slot == IF buffer = NULL THEN lf_error_raise(herr, "E_NULL") ELSE herr
    IN  /\ Begin(Op(fn, module, in[2], fmr_void_t, <<>>, "wrap", buffer, length,
                    module.device))
        /\ IF module.ptr = NULL
           THEN ReturnEarly(lf_error, lf_error_raise(herr, "E_NULL"))
           ELSE IF buffer # NULL /\ length = 0
           THEN ReturnEarly(lf_success, herr)
           ELSE IF module.device = NULL
           THEN ReturnEarly(lf_error, lf_error_raise(slot, "E_NO_DEVICE"))
           ELSE \E img \in {PushPullPacket(class, module, in[2], fmr_void_t, buffer,
                                           length, <<>>, "wrap")} :
                    lf_transfer(img, ok, next, lf_error, slot)

lf_push ==
    /\ hpc = "idle"
    /\ BulkModuleEntry("lf_push", fmr_push_class, "lf_push_raw")

lf_push_raw ==
    /\ hpc = "lf_push_raw"
    /\ \E ok \in BOOLEAN : RawPush(ok, "lf_push_result", lf_error)

lf_push_result ==
    /\ hpc = "lf_push_result"
    /\ GetResultAndReturn

lf_pull ==
    /\ hpc = "idle"
    /\ BulkModuleEntry("lf_pull", fmr_pull_class, "lf_pull_raw")

lf_pull_raw ==
    /\ hpc = "lf_pull_raw"
    /\ \E ok \in BOOLEAN : RawPull("raw", hop.length, ok, "lf_pull_result", lf_error)

lf_pull_result ==
    /\ hpc = "lf_pull_result"
    /\ GetResultAndReturn

\* lf_recieve stores the source address in the first parameter bytes, past
\* the length the checksum covers.
lf_recieve_packet(buffer, length) ==
    StoreChecksum(
        Put(Put(NewPacket(FMR_PUSH_PULL_SIZE, fmr_receive_class), FMR_HEADER_SIZE,
                LE(length, 4)),
            FMR_PUSH_PULL_SIZE, IF buffer = NULL THEN Zeros(8) ELSE BufferAddress))

BulkDevicePacket(fn, buffer, length) ==
    CASE fn = "lf_send" -> BarePacket(fmr_send_class, length)
      [] fn = "lf_recieve" -> lf_recieve_packet(buffer, length)
      [] fn = "lf_ram_load" -> BarePacket(fmr_ram_load_class, length)

\* lf_send, lf_recieve and lf_ram_load up to and including lf_transfer;
\* `zero` is what is returned for a zero length, `fail` what is returned on
\* failure.
BulkDeviceEntry(fn, next, zero, fail) ==
    \E in \in BulkDeviceInputs, ok \in BOOLEAN :
    LET device == in[1]
        buffer == in[2]
        length == in[3]
        slot == IF buffer = NULL THEN lf_error_raise(herr, "E_NULL") ELSE herr
    IN  /\ Begin(Op(fn, NoModule, 0, 0, <<>>, "wrap", buffer, length, device))
        /\ IF buffer # NULL /\ length = 0
           THEN ReturnEarly(zero, herr)
           ELSE IF device = NULL
           THEN ReturnEarly(fail, lf_error_raise(slot, "E_NO_DEVICE"))
           ELSE \E img \in {BulkDevicePacket(fn, buffer, length)} :
                    lf_transfer(img, ok, next, fail, slot)

lf_send ==
    /\ hpc = "idle"
    /\ BulkDeviceEntry("lf_send", "lf_send_raw", Zeros(8), Zeros(8))

lf_send_raw ==
    /\ hpc = "lf_send_raw"
    /\ \E ok \in BOOLEAN : RawPush(ok, "lf_send_result", Zeros(8))

lf_send_result ==
    /\ hpc = "lf_send_result"
    /\ GetResultAndReturn

lf_recieve ==
    /\ hpc = "idle"
    /\ \/ BulkDeviceEntry("lf_recieve", "lf_recieve_raw", Zeros(8), Zeros(8))
       \/ \* malloc fails
          /\ Begin(Op("lf_recieve", NoModule, 0, 0, <<>>, "wrap", "buf", 1, "dev"))
          /\ ReturnEarly(Zeros(8), lf_error_raise(herr, "E_MALLOC"))

lf_recieve_raw ==
    /\ hpc = "lf_recieve_raw"
    /\ \E ok \in BOOLEAN : RawPull("raw", hop.length, ok, "lf_recieve_result", Zeros(8))

lf_recieve_result ==
    /\ hpc = "lf_recieve_result"
    /\ GetResultAndReturn

lf_ram_load ==
    /\ hpc = "idle"
    /\ BulkDeviceEntry("lf_ram_load", "lf_ram_load_raw", lf_success, lf_error)

lf_ram_load_raw ==
    /\ hpc = "lf_ram_load_raw"
    /\ \E ok \in BOOLEAN : RawPush(ok, "lf_ram_load_result", lf_error)

lf_ram_load_result ==
    /\ hpc = "lf_ram_load_result"
    /\ GetResultAndReturn

\* The configuration packet: a header only.
ConfigurationPacket == StoreChecksum(NewPacket(FMR_HEADER_SIZE, fmr_configuration_class))

\* The identifier field of a configuration record.
IdentifierOf(cfg) == SubSeq(cfg, 17, 18)

lf_load_configuration ==
    /\ hpc = "idle"
    /\ \E ok \in BOOLEAN, img \in {ConfigurationPacket} :
        /\ Begin(Op("lf_load_configuration", NoModule, 0, 0, <<>>, "wrap", NULL, 0, "dev"))
        /\ lf_transfer(img, ok, "lf_load_configuration_pull", lf_error, herr)

lf_load_configuration_pull ==
    /\ hpc = "lf_load_configuration_pull"
    /\ \E ok \in BOOLEAN :
          RawPull("configuration", LF_CONFIGURATION_SIZE, ok,
                  "lf_load_configuration_result", lf_error)

\* lf_load_configuration that copies what it pulled whatever its identifier.
lf_load_configuration_result_uncompared ==
    /\ hpc = "lf_load_configuration_result"
    /\ \E o \in ResultPulls :
       \E g \in {lf_get_result(o[1], o[2], herr, d2h)} :
        /\ hres' = g.result
        /\ d2h' = g.wire
        /\ IF g.ret = lf_error
           THEN hret' = lf_error /\ herr' = g.slot /\ UNCHANGED hcfg
           ELSE hret' = lf_success /\ herr' = g.slot /\ hcfg' = hbuf
        /\ hlog' = hlog \o <<EpCall("pull", "result", FMR_RESULT_SIZE)>>
        /\ hfail' = (hfail \/ ~o[1])
        /\ unanswered' = IF o[1] /\ unanswered > 0 THEN unanswered - 1 ELSE unanswered
        /\ hpc' = "returned"
        /\ UNCHANGED <<hop, himg, hbuf, opsDone, h2d, marks, devVars, libVars>>

\* lf_get_result, the comparison of the identifiers and the copy.
lf_load_configuration_result ==
    /\ hpc = "lf_load_configuration_result"
    /\ \E o \in ResultPulls :
       \E g \in {lf_get_result(o[1], o[2], herr, d2h)} :
        /\ hres' = g.result
        /\ d2h' = g.wire
        /\ IF g.ret = lf_error
           THEN hret' = lf_error /\ herr' = g.slot /\ UNCHANGED hcfg
           ELSE IF IdentifierOf(hcfg) # IdentifierOf(hbuf)
           THEN /\ hret' = lf_error
                /\ herr' = lf_error_raise(g.slot, "E_NO_DEVICE")
                /\ UNCHANGED hcfg
           ELSE hret' = lf_success /\ herr' = g.slot /\ hcfg' = hbuf
        /\ hlog' = hlog \o <<EpCall("pull", "result", FMR_RESULT_SIZE)>>
        /\ hfail' = (hfail \/ ~o[1])
        /\ unanswered' = IF o[1] /\ unanswered > 0 THEN unanswered - 1 ELSE unanswered
        /\ hpc' = "returned"
        /\ UNCHANGED <<hop, himg, hbuf, opsDone, h2d, marks, devVars, libVars>>

HostNext ==
    \/ lf_invoke \/ lf_invoke_result
    \/ lf_push \/ lf_push_raw \/ lf_push_result
    \/ lf_pull \/ lf_pull_raw \/ lf_pull_result
    \/ lf_send \/ lf_send_raw \/ lf_send_result
    \/ lf_recieve \/ lf_recieve_raw \/ lf_recieve_result
    \/ lf_ram_load \/ lf_ram_load_raw \/ lf_ram_load_result
    \/ lf_load_configuration \/ lf_load_configuration_pull \/ lf_load_configuration_result
    \/ caller_continue

-----------------------------------------------------------------------------
(* The system: the host and the device joined by the channel.              *)

InitialConfiguration == Zeros(16) \o DeviceIdentifier \o Zeros(3)

\* No library call made yet: nothing attached, nothing selected, the module
\* structure as LF_MODULE declares it.
LibIdle ==
    /\ flipper = [device |-> NULL]
    /\ attached = [a \in {} |-> NULL]
    /\ i2c = [ptr |-> "i2c", name |-> <<105, 50, 99>>, identifier |-> 0,
                 index |-> 255, device |-> NULL]
    /\ fld_modules = <<>>
    /\ fmr_module_is_signed = FALSE
    /\ lcalls = <<>>

HostInit ==
    /\ LibIdle
    /\ hpc = "idle"
    /\ hop = NoOp
    /\ himg = <<>>
    /\ hlog = <<>>
    /\ hfail = FALSE
    /\ herr = "E_OK"
    /\ hres = NoResult
    /\ hret = Zeros(8)
    /\ hbuf = <<>>
    /\ hcfg = InitialConfiguration
    /\ opsDone = 0
    /\ unanswered = 0

\* system_task has armed the receiver: uart0_pull(&packet, sizeof packet).
DevInit ==
    /\ dpc = "armed"
    /\ rxen = TRUE
    /\ packet = Zeros(FMR_PACKET_SIZE)
    /\ result = [value |-> Zeros(8), error |-> "E_OK"]
    /\ derr = "E_OK"
    /\ dlog = <<>>
    /\ aligned = TRUE
    /\ owed = 0

Init ==
    /\ HostInit
    /\ DevInit
    /\ h2d = <<>>
    /\ d2h = <<>>
    /\ marks = {}

Next == HostNext \/ DevNext

Spec == Init /\ [][Next]_vars

-----------------------------------------------------------------------------
(* The device alone, fed with packets damaged on the wire.                 *)

\* Packets the host builds: an invocation with three byte arguments, the
\* packet of lf_push, and the packet of lf_recieve, which has bytes set past
\* its length.
BasePackets ==
    {InvokePacket(Module0, 0, fmr_void_t, <<U8(10), U8(20), U8(30)>>, "wrap"),
     PushPullPacket(fmr_push_class, Module0, 0, fmr_void_t, "buf", MaxRaw, <<>>, "wrap"),
     lf_recieve_packet("buf", MaxRaw)}

\* Bit k of the buffer inverted, bits counted from bit 0 of the first byte.
RECURSIVE Pow2(_)
Pow2(n) == IF n = 0 THEN 1 ELSE 2 * Pow2(n - 1)
FlipBit(buf, k) == Put(buf, k \div 8, <<Xor(buf[(k \div 8) + 1], Pow2(k % 8), 8)>>)

\* The checksum recomputed, as a sender does for a packet it alters.
Resealed(img) == StoreChecksum(Put(img, OFF_CHECKSUM, <<0, 0>>))


\* What can arrive for a packet p: p itself, p with one bit inverted, p with
\* another magic, length or class.
Arrivals(p) ==
    {p}
    \cup {FlipBit(p, k) : k \in 0..(8 * FMR_PACKET_SIZE - 1)}
    \cup {Put(p, OFF_MAGIC, <<0, 0>>)}
    \cup {IF n <= FMR_PACKET_SIZE
          THEN Resealed(Put(p, OFF_LENGTH, LE(n, 2)))
          ELSE Put(p, OFF_LENGTH, LE(n, 2)) : n \in {0, 4, 7, FMR_PACKET_SIZE + 1, 200}}
    \cup {Resealed(Put(p, OFF_CLASS, <<c>>)) : c \in {fmr_configuration_class, fmr_event_class, 9, 255}}

\* The host has pushed the packet p and the wire delivers q.
PerformInit ==
    /\ LibIdle
    /\ hpc = "idle"
    /\ hop = NoOp
    /\ hlog = <<>>
    /\ hfail = FALSE
    /\ herr = "E_OK"
    /\ hres = NoResult
    /\ hret = Zeros(8)
    /\ hbuf = <<>>
    /\ hcfg = InitialConfiguration
    /\ opsDone = MaxOps
    /\ unanswered = 1
    /\ DevInit
    /\ \E p \in BasePackets :
       \E q \in Arrivals(p) :
          /\ himg = p
          /\ h2d = q
    /\ d2h = <<>>
    /\ marks = {1}

SpecPerform == PerformInit /\ [][DevNext]_vars

-----------------------------------------------------------------------------
(* The device alone, with two packets in flight one behind the other.      *)

BurstPackets ==
    BasePackets
    \cup {InvokePacket(Module0, 2, fmr_void_t, <<>>, "wrap"),
          InvokePacket(Module1, 0, fmr_void_t, <<U8(1)>>, "wrap"),
          InvokePacket(ModuleUser, 0, fmr_void_t, <<>>, "wrap"),
          InvokePacket(Module1, 1, fmr_void_t, <<>>, "wrap"),
          InvokePacket(ModuleRecord("module", 2, "dev"), 0, fmr_void_t, <<>>, "wrap")}

\* The packet in front: intact, with another magic, or with a bit of its
\* body inverted.
BurstFirst ==
    BurstPackets
    \cup {Put(p, OFF_MAGIC, <<0, 0>>) : p \in BurstPackets}
    \cup {FlipBit(p, 8 * FMR_HEADER_SIZE) : p \in BurstPackets}

\* The host has pushed a and then b before the device handled a.
BurstInit ==
    /\ LibIdle
    /\ hpc = "idle"
    /\ hop = NoOp
    /\ hlog = <<>>
    /\ hfail = FALSE
    /\ herr = "E_OK"
    /\ hres = NoResult
    /\ hret = Zeros(8)
    /\ hbuf = <<>>
    /\ hcfg = InitialConfiguration
    /\ opsDone = MaxOps
    /\ unanswered = 2
    /\ DevInit
    /\ \E a \in BurstFirst, b \in BurstPackets :
          /\ himg = b
          /\ h2d = a \o b
    /\ d2h = <<>>
    /\ marks = {1, FMR_PACKET_SIZE + 1}

SpecBurst == BurstInit /\ [][DevNext]_vars

-----------------------------------------------------------------------------
(* fmr_build: the argument list made from variadic values.                 *)

\* The address of a list that was built.
ListAddress == <<64, 0, 0, 2, 0, 0, 0, 0>>

RECURSIVE fmr_build_from(_, _, _, _, _, _)
\* The loop of fmr_build from argument i on. Each variadic value carries its
\* type above the bits of the value; the type is taken with `& 0x7`. The
\* node is written before the result of malloc is tested: when malloc fails
\* at argument failAt, `ub` names the outcome of that write ("fault": the
\* program stops there, written "fault" in place of the error slot, with the
\* nodes appended so far still allocated; "raise": execution reaches the
\* lf_assert and the failure exit releases the list).
fmr_build_from(argv, i, list, slot, failAt, ub) ==
    IF i > Len(argv)
    THEN [head |-> IF list = <<>> THEN Zeros(8) ELSE ListAddress, list |-> list, slot |-> slot]
    ELSE CHOOSE r \in
           {IF ~(type <= fmr_ptr_t)
            THEN [head |-> Zeros(8), list |-> <<>>, slot |-> lf_error_raise(slot, "E_TYPE")]
            ELSE IF i = failAt
            THEN IF ub = "fault"
                 THEN [head |-> Zeros(8), list |-> list, slot |-> "fault"]
                 ELSE [head |-> Zeros(8), list |-> <<>>, slot |-> lf_error_raise(slot, "E_MALLOC")]
            ELSE fmr_build_from(argv, i + 1, Append(list, Arg(type, argv[i].value)),
                                slot, failAt, ub) :
            type \in {argv[i].type % 8}} : TRUE

\* fmr_build(argc, ...): the pointer returned (head, the null pointer when the
\* build failed and for the empty list), the arguments of the list and the
\* error slot. The first lf_assert jumps to the failure exit over the
\* initialisation of `list`, so lf_ll_release is given a pointer never set:
\* `ub` names what comes of it ("raise": it is taken for an empty list;
\* "fault": the program stops in the release).
fmr_build(argv, slot, failAt, ub) ==
    IF ~(Len(argv) < FMR_MAX_ARGC)
    THEN IF ub = "fault"
         THEN [head |-> Zeros(8), list |-> <<>>, slot |-> "fault"]
         ELSE [head |-> Zeros(8), list |-> <<>>,
               slot |-> lf_error_raise(slot, "E_OVERFLOW")]
    ELSE fmr_build_from(argv, 1, <<>>, slot, failAt, ub)

\* n variadic values of one type.
Variadic(type, n) ==
    SubSeq([i \in 1..n |-> Arg(type, <<i, 0, 0, 0, 0, 0, 0, 0>>)], 1, n)

\* The calls of fmr_build: up to one argument more than FMR_MAX_ARGC, of each
\* 4-bit tag (those of the binding's type enumeration and the others), every
\* malloc succeeding (failAt = 0), or the first or the second one failing.
BuildInputs ==
    {[fn |-> "fmr_build", args |-> Variadic(type, n), failAt |-> failAt, ub |-> ub] :
        type \in 0..15, n \in 0..(FMR_MAX_ARGC + 1), failAt \in {0},
        ub \in {"raise"}}
    \cup {[fn |-> "fmr_build", args |-> Variadic(fmr_int8_t, n), failAt |-> 0, ub |-> "fault"] :
        n \in FMR_MAX_ARGC..(FMR_MAX_ARGC + 1)}
    \cup {[fn |-> "fmr_build", args |-> Variadic(fmr_int8_t, n),
            failAt |-> IF f > n THEN n ELSE f, ub |-> ub] :
        n \in 1..2, f \in 1..2, ub \in {"raise", "fault"}}

\* A caller is about to call fmr_build.
BuildInit ==
    /\ LibIdle
    /\ hpc = "fmr_build"
    /\ hop \in BuildInputs
    /\ himg = <<>>
    /\ hlog = <<>>
    /\ hfail = FALSE
    /\ herr = "E_OK"
    /\ hres = NoResult
    /\ hret = Zeros(8)
    /\ hbuf = <<>>
    /\ hcfg = InitialConfiguration
    /\ opsDone = 0
    /\ unanswered = 0
    /\ DevInit
    /\ h2d = <<>>
    /\ d2h = <<>>
    /\ marks = {}

\* fmr_build runs and returns the list, or NULL after a failure.
fmr_build_call ==
    /\ hpc = "fmr_build"
    /\ \E r \in {fmr_build(hop.args, herr, hop.failAt, hop.ub)} :
          /\ hpc' = IF r.slot = "fault" THEN "fault"
                    ELSE IF r.slot = herr THEN "built" ELSE "returned"
          /\ hbuf' = r.list
          /\ herr' = r.slot
          /\ hret' = r.head
    /\ UNCHANGED <<hop, himg, hlog, hfail, hres, hcfg, opsDone, unanswered, h2d, d2h,
                   marks, devVars, libVars>>

\* The caller hands the list to fmr_create_call, which fills the call of an
\* invocation packet and releases the list.
fmr_create_call_built ==
    /\ hpc = "built"
    /\ \E ub \in ShiftOutcomes(hbuf) :
          himg' = fmr_create_call(0, 0, fmr_void_t, hbuf,
                                  NewPacket(FMR_INVOCATION_SIZE, fmr_standard_invocation_class),
                                  FMR_HEADER_SIZE, ub)
    /\ hbuf' = <<>>
    /\ hret' = lf_success
    /\ hpc' = "returned"
    /\ UNCHANGED <<hop, hlog, hfail, herr, hres, hcfg, opsDone, unanswered, h2d, d2h,
                   marks, devVars, libVars>>

BuildNext == fmr_build_call \/ fmr_create_call_built

SpecBuild == BuildInit /\ [][BuildNext]_vars

-----------------------------------------------------------------------------
(* fmr_call of the avr8 kernel: the trampoline that loads the arguments    *)
(* into the registers, calls the entry point and widens what it returned.  *)
(* Registers r18..r25 are kept as 8 bytes, r18 first: a 64-bit value.      *)

RECURSIVE fmr_call_load(_, _, _, _, _, _)
\* _load .. _load_done: while argc is not zero, the low three bits of argt
\* select how many bytes are read through Z (at z in argv) and stored below
\* the register X points at; argt is then shifted right by four, arithmetically
\* in its 16 bits. [fail, passed]: passed is what was stored, as pairs of
\* register number and byte; fail when a type has no _load_ case or is 64-bit.
fmr_call_load(argc, argt, argv, z, x, passed) ==
    IF argc = 0 THEN [fail |-> FALSE, passed |-> passed]
    ELSE CHOOSE r \in
           {IF t \notin {0, 1, 3, 4, 6}
            THEN [fail |-> TRUE, passed |-> passed]
            ELSE fmr_call_load(argc - 1,
                               (argt \div 16) + (IF argt >= 32768 THEN 61440 ELSE 0),
                               argv,
                               z + (IF t \in {4, 6} THEN 8 ELSE n),
                               x - (IF n = 1 THEN 2 ELSE n),
                               passed \o SubSeq([k \in 1..n |->
                                                   <<x - (IF n = 1 THEN 1 ELSE n - 1) + k - 1,
                                                     argv[z + k]>>], 1, n)) :
            t \in {argt % 8},
            n \in {CASE argt % 8 = 0 -> 1 [] argt % 8 = 3 -> 4 [] OTHER -> 2}} : TRUE

\* _ret_8 .. _ret_64 on r16 = ret & 0x7 and the registers the entry point left
\* (raw): the 8 bytes left in r18..r25. The 8-bit result is taken from r24, the 16-bit one
\* from r25:r24, the 32-bit one from r25..r22, whose copy leaves r22 as it
\* was. Each sign extension is guarded by `sbrs r16, 4`, a test of bit 4 of
\* a value below 8. lf_int sets bit 2 of r16 (sbr r16, 4) and joins the
\* 16-bit case, as does lf_ptr.
fmr_call_ret(ret, raw) ==
    LET r16 == ret % 8
        signed == (r16 \div 16) % 2 = 1
        r16b == IF r16 = 4 THEN Or(r16, 4, 8) ELSE r16
        signedb == (r16b \div 16) % 2 = 1
        fill(top, s) == IF s /\ top >= 128 THEN 255 ELSE 0
    IN  CASE r16 = 0 ->
               <<raw[7]>> \o SubSeq([k \in 1..7 |-> fill(raw[7], signed)], 1, 7)
          [] r16 \in {1, 4, 6} ->
               <<raw[7], raw[8]>> \o SubSeq([k \in 1..6 |-> fill(raw[8], signedb)], 1, 6)
          [] r16 = 2 -> Zeros(8)
          [] r16 = 3 ->
               <<raw[5], raw[6], raw[7], raw[8]>>
               \o (IF signed /\ raw[8] >= 128
                   THEN <<255 - raw[5], 255, 255, 255>>
                   ELSE <<raw[5], 0, 0, 0>>)
          [] r16 = 7 -> raw
          [] OTHER -> Ones(8)

\* fmr_call(function, ret, argc, argt, argv), entered with the return address
\* on the stack: pushes r3, r4, r5 and the function address, loads the
\* arguments, pops the address and calls it (the entry point leaves `raw` in
\* r18..r25), widens the result; _fail fills r18..r25 with ones; _done pops
\* three bytes into r5, r4, r3 and `ret` takes the next two as the address to
\* continue at. [value, called, passed, r3, r4, r5, target].
fmr_call_avr8(ret, argc, argt, argv, raw) ==
    LET entry == <<"pc_l", "pc_h", "r3", "r4", "r5", "function_h", "function_l">>
        l == fmr_call_load(argc % 256, argt % 65536, argv, 0, 25, <<>>)
        stack == IF l.fail THEN entry ELSE SubSeq(entry, 1, 5)
        top == Len(stack)
    IN  [value |-> IF l.fail THEN Ones(8) ELSE fmr_call_ret(ret, raw),
         called |-> ~l.fail,
         passed |-> l.passed,
         r5 |-> stack[top], r4 |-> stack[top - 1], r3 |-> stack[top - 2],
         target |-> SubSeq(stack, top - 4, top - 3)]

\* The calls of fmr_call: every return type, four register images left by
\* the entry point, and argument lists without arguments, of narrow
\* arguments, with a 64-bit argument (7), with a type that has no case (5)
\* and of five arguments, whose types past the fourth come from the shift.
CallInputs ==
    [ev : {"fmr_call"}, ret : 0..15,
     raw : {Zeros(8), Ones(8), <<17, 34, 51, 68, 85, 102, 119, 136>>,
            <<0, 0, 0, 0, 1, 0, 0, 128>>},
     argc : {0}, argt : {0}]
    \cup [ev : {"fmr_call"}, ret : {fmr_int8_t, fmr_int32_t}, raw : {Ones(8)},
          argc : {1, 2, 5}, argt : {0, 49, 100, 7, 5, 33025}]

\* The 44 bytes of the parameter segment argv points at.
CallParameters == SubSeq([k \in 1..44 |-> k], 1, 44)

\* fmr_call is about to run on the device.
CallInit ==
    /\ HostInit
    /\ h2d = <<>>
    /\ d2h = <<>>
    /\ marks = {}
    /\ dpc = "fmr_call"
    /\ rxen = FALSE
    /\ packet = Zeros(FMR_PACKET_SIZE)
    /\ result = [value |-> Zeros(8), error |-> "E_OK"]
    /\ derr = "E_OK"
    /\ \E in \in CallInputs : dlog = <<in>>
    /\ aligned = TRUE
    /\ owed = 1

\* fmr_call runs: the value it leaves in r18..r25 and where its `ret` goes.
fmr_call_run ==
    /\ dpc = "fmr_call"
    /\ \E r \in {fmr_call_avr8(dlog[1].ret, dlog[1].argc, dlog[1].argt, CallParameters,
                               dlog[1].raw)} :
          /\ result' = [value |-> r.value, error |-> "E_OK"]
          /\ dlog' = dlog \o (IF r.called THEN <<[ev |-> "icall", passed |-> r.passed]>>
                              ELSE <<>>)
                          \o <<[ev |-> "ret", target |-> r.target,
                                r3 |-> r.r3, r4 |-> r.r4, r5 |-> r.r5]>>
          /\ dpc' = IF r.target = <<"pc_l", "pc_h">> THEN "fmr_call_returned" ELSE "lost"
    /\ UNCHANGED <<hostVars, libVars, h2d, d2h, marks, rxen, packet, derr, aligned, owed>>

SpecCall == CallInit /\ [][fmr_call_run]_vars

-----------------------------------------------------------------------------
(* The system over a reliable transport: no endpoint call fails. The       *)
(* interrupt handler runs whenever the receiver has a full buffer, and the *)
(* host thread runs whenever its next call can proceed.                    *)

ReliableHost == HostNext /\ hfail' = FALSE

ReliableNext == ReliableHost \/ DevNext

SpecReliable ==
    Init /\ [][ReliableNext]_vars /\ WF_vars(DevNext) /\ WF_vars(ReliableHost)

-----------------------------------------------------------------------------
(* Properties.                                                             *)

\* The endpoint calls an operation makes when nothing fails.
PushingOps == {"lf_push", "lf_send", "lf_ram_load"}
PullingOps == {"lf_pull", "lf_recieve"}
ExpectedCalls(op) ==
    <<EpCall("push", "packet", FMR_PACKET_SIZE)>>
    \o (IF op.fn \in PushingOps THEN <<EpCall("push", "raw", op.length)>>
        ELSE IF op.fn \in PullingOps THEN <<EpCall("pull", "raw", op.length)>>
        ELSE <<>>)
    \o <<EpCall("pull", "result", FMR_RESULT_SIZE)>>

\* C1: for lf_invoke, lf_push, lf_pull, lf_send, lf_recieve and lf_ram_load,
\* the endpoint calls made so far are always a prefix of: one push of the
\* whole packet, then (bulk operations) one raw push or pull of `length`
\* bytes, then one pull of a Result; and an operation that reached the
\* transport and returns without a transport failure has made all of them.
C1_EndpointCallOrder ==
    hop.fn \in PushingOps \cup PullingOps \cup {"lf_invoke"} =>
        /\ IsPrefix(hlog, ExpectedCalls(hop))
        /\ (hpc = "returned" /\ ~hfail /\ hlog # <<>>) => hlog = ExpectedCalls(hop)

\* An lf_pull of MaxRaw bytes has returned after its three calls.
C1_Witness ==
    /\ hpc = "returned"
    /\ ~hfail
    /\ hop.fn = "lf_pull"
    /\ hop.length = MaxRaw
    /\ Len(hlog) = 3

\* The events of the handler so far, by kind.
Events(kind) == {i \in DOMAIN dlog : dlog[i].ev = kind}

\* C2: every packet the device receives is answered by exactly one Result,
\* whether fmr_perform returns success or failure; the Result is pushed
\* after fmr_perform has returned and is the last transmission before the
\* receiver is re-armed; no Result is pushed without a received packet.
C2_OneResultPerPacket ==
    /\ owed \in {0, 1}
    /\ dpc \in {"armed", "rearm"} => owed = 0
    /\ dpc \in {"perform", "reply"} => owed = 1 /\ Events("uart0_push") = {}
    /\ dpc = "rearm" =>
          /\ Len(dlog) >= 3
          /\ dlog[1].ev = "ENDRX"
          /\ dlog[Len(dlog) - 1].ev = "fmr_perform"
          /\ dlog[Len(dlog)] = [ev |-> "uart0_push", what |-> "result"]
          /\ Cardinality(Events("uart0_push")) = 1

\* The device has answered a packet for which fmr_perform returned failure.
C2_Witness ==
    /\ dpc = "rearm"
    /\ owed = 0
    /\ dlog[Len(dlog) - 1].ret = "lf_error"
    /\ Len(d2h) >= FMR_RESULT_SIZE

\* C3: when the Result pulled by lf_invoke carries an error, lf_invoke
\* raises that error into the host error slot and returns the failure
\* sentinel, not Result.value.
C3_InvokeFailsOnErrorResult ==
    (hpc = "returned" /\ hop.fn = "lf_invoke" /\ hres.valid /\ hres.error # "E_OK") =>
        /\ herr = hres.error
        /\ hret = lf_error

\* The packet the handler is working on, as it arrived.
Received == dlog[1].packet
Handling == dpc \in {"reply", "rearm"}
BadMagic(pkt) == Get16(pkt, OFF_MAGIC) # FMR_MAGIC_NUMBER
LengthFits(pkt) == Get16(pkt, OFF_LENGTH) <= FMR_PACKET_SIZE
BadChecksum(pkt) ==
    /\ LengthFits(pkt)
    /\ Get16(pkt, OFF_CHECKSUM)
         # lf_crc(Put(pkt, OFF_CHECKSUM, <<0, 0>>), Get16(pkt, OFF_LENGTH))
Dispatched ==
    \E i \in DOMAIN dlog :
        dlog[i].ev \in {"fmr_execute", "fmr_perform_user_invocation", "fmr_push", "fmr_pull"}
PerformReturned == dlog[CHOOSE i \in Events("fmr_perform") : TRUE].ret

\* C4: a packet whose magic is not the magic constant, or whose checksum
\* field differs from the CRC of the packet with that field zeroed, is
\* dispatched to no handler, fmr_perform returns failure, and the reply the
\* device sends is {value = 0, error = Checksum}.
C4_BadMagicOrChecksum ==
    (Handling /\ (BadMagic(Received) \/ BadChecksum(Received))) =>
        /\ ~Dispatched
        /\ PerformReturned = "lf_error"
        /\ result = [value |-> Zeros(8), error |-> "E_CHECKSUM"]
        /\ dpc = "rearm" => d2h = Zeros(8) \o LE(ErrCode("E_CHECKSUM"), 4)

\* A packet with the right magic and a wrong checksum has been answered.
C4_Witness ==
    /\ dpc = "rearm"
    /\ ~BadMagic(Received)
    /\ BadChecksum(Received)
    /\ Len(d2h) = FMR_RESULT_SIZE

\* C5: a packet lf_invoke builds for a standard invocation passes the magic
\* and checksum checks of fmr_perform, and the index, function, ret, argc,
\* types and parameter bytes handed to fmr_execute are the encoded ones.
C5_InvokeRoundTrip ==
    (Handling /\ aligned /\ hop.fn = "lf_invoke"
              /\ InvokeClass(hop.module) = fmr_standard_invocation_class) =>
        LET enc == Encoded(hop.module.index, hop.function, hop.ret, hop.args, hop.ub)
        IN  \E i \in Events("fmr_execute") :
                /\ dlog[i].call.index = enc.index
                /\ dlog[i].call.function = enc.function
                /\ dlog[i].call.ret = enc.ret
                /\ dlog[i].call.argc = enc.argc
                /\ dlog[i].call.types = enc.types
                /\ IsPrefix(enc.parameters, dlog[i].call.parameters)

\* The bytes of two buffers that differ, and whether the buffers differ in
\* exactly one bit, which lies outside the checksum field.
Differing(a, b) == {i \in DOMAIN a : a[i] # b[i]}
OneBitOutsideChecksum(a, b) ==
    /\ Len(a) = Len(b)
    /\ Cardinality(Differing(a, b)) = 1
    /\ \A i \in Differing(a, b) :
          /\ i \notin {OFF_CHECKSUM + 1, OFF_CHECKSUM + 2}
          /\ Xor(a[i], b[i], 8) \in {Pow2(k) : k \in 0..7}

\* C6: a packet that differs from one fmr_perform accepts in a single bit
\* outside the checksum field, be it in the length field or past the used
\* length, makes fmr_perform fail with Checksum.
C6_SingleBitFlipDetected ==
    (Handling /\ OneBitOutsideChecksum(himg, Received)) =>
        /\ PerformReturned = "lf_error"
        /\ result.error = "E_CHECKSUM"

\* C7: a packet whose length field is greater than the capacity of the
\* packet buffer or smaller than the header is rejected with Overflow and
\* not dispatched, and lf_crc is never run over more than the buffer.
C7_LengthChecked ==
    /\ \A i \in Events("lf_crc") : dlog[i].length <= FMR_PACKET_SIZE
    /\ (Handling /\ ~BadMagic(Received)
          /\ (~LengthFits(Received) \/ Get16(Received, OFF_LENGTH) < FMR_HEADER_SIZE)) =>
            /\ ~Dispatched
            /\ PerformReturned = "lf_error"
            /\ result.error = "E_OVERFLOW"

\* C8: a packet that passes the magic and checksum checks and whose class
\* is none of the enumerated classes makes fmr_perform fail, and the reply
\* carries the error Subclass.
C8_InvalidClassRejected ==
    (Handling /\ ~BadMagic(Received) /\ LengthFits(Received) /\ ~BadChecksum(Received)
              /\ Received[OFF_CLASS + 1] > fmr_event_class) =>
        /\ PerformReturned = "lf_error"
        /\ result.error = "E_SUBCLASS"

\* C9: for the configuration packet of lf_load_configuration the device
\* transmits its configuration record before the Result, so that the two
\* pulls of the host are both served.
C9_ConfigurationSent ==
    (dpc = "rearm" /\ aligned /\ hop.fn = "lf_load_configuration") =>
        \E i \in Events("uart0_push") :
            /\ dlog[i].what = "configuration"
            /\ i < Len(dlog)

\* C10: for a push, send or ram-load packet fmr_push takes exactly the
\* announced number of raw bytes from the channel, and so every buffer the
\* device handles as a packet starts at the first byte of a host packet.
C10_FrameAligned ==
    /\ dpc # "armed" => aligned
    /\ \A i \in Events("fmr_push") :
          aligned => dlog[i].consumed = hop.length

\* C14: over a reliable transport, with the device running uart0_isr, every
\* lf_invoke that has passed its checks and pushed its packet eventually
\* returns, and an lf_invoke that pushed a packet returns only with the
\* Result pulled and no pushed packet left unanswered.
C14_InvokeReturns ==
    /\ [](  (hpc = "returned" /\ hop.fn = "lf_invoke" /\ hlog # <<>>) =>
              /\ hres.valid
              /\ hlog[Len(hlog)] = EpCall("pull", "result", FMR_RESULT_SIZE)
              /\ unanswered = 0)
    /\ (hpc = "lf_invoke_result") ~> (hpc = "returned" /\ hop.fn = "lf_invoke")

\* A second operation, a standard lf_invoke, has returned with its Result.
C14_Witness ==
    /\ hpc = "returned"
    /\ hop.fn = "lf_invoke"
    /\ InvokeClass(hop.module) = fmr_standard_invocation_class
    /\ hres.valid
    /\ opsDone = MaxOps

\* C11: for a pull packet of the pull or receive class, the device invokes the
\* target function (pull class) and transmits exactly the number of raw bytes
\* named by the length field of the packet before it sends the Result.
C11_PullTransmitsLength ==
    \A i \in Events("fmr_pull") :
        (aligned /\ LengthFits(Received) /\ ~BadMagic(Received)) =>
            /\ Len(dlog[i].transmitted) = Get16(Received, FMR_HEADER_SIZE)
            /\ Received[OFF_CLASS + 1] = fmr_pull_class => Events("fmr_execute") # {}

\* C12: the device handles one packet at a time: the receiver is disabled from
\* the entry of uart0_isr until the Result was sent, it is enabled whenever the
\* device waits for a packet, at most one Result is owed, and the packet
\* buffer keeps the packet being handled (fmr_perform only zeroes its checksum
\* field) although the next packet is already on the wire.
C12_OnePacketAtATime ==
    /\ (dpc # "armed") => ~rxen
    /\ (dpc = "armed") => rxen
    /\ owed <= 1
    /\ (dpc = "perform") => packet = Received
    /\ Handling => packet \in {Received, Put(Received, OFF_CHECKSUM, <<0, 0>>)}
C12_Witness == dpc = "reply" /\ Len(h2d) >= FMR_PACKET_SIZE /\ Dispatched

\* The error raised while the packet being handled was performed, read from
\* the events of that packet.
RaisedWhilePerforming ==
    IF PerformReturned = "lf_error" THEN "E_CHECKSUM"
    ELSE IF \E i \in Events("fmr_execute") : dlog[i].called = NULL THEN "E_NULL"
    ELSE IF \E i \in Events("fmr_execute") : dlog[i].called = "f_raise" THEN "E_TEST"
    ELSE "E_OK"

\* C13: the error code of the Result is the error raised while this packet was
\* performed, and the device's error slot is clear once the Result is formed:
\* whether fmr_perform succeeded or failed, no error leaks into a later Result.
C13_ErrorOfThisPacket ==
    /\ Handling => result.error = RaisedWhilePerforming
    /\ (dpc \in {"armed", "reply", "rearm"}) => derr = "E_OK"
C13_Witness ==
    /\ dpc = "reply" /\ Len(d2h) = FMR_RESULT_SIZE /\ d2h[FMR_RESULT_SIZE - 3] # 0
    /\ result.error = "E_OK" /\ Dispatched

\* C15: on the host, packet pushes and Result pulls strictly alternate: a
\* second packet is never pushed while the Result of the first is outstanding.
C15_PushPullAlternate == unanswered <= 1

\* C16: lf_invoke with a NULL module raises E_NULL, with a module that has no
\* device raises E_NO_DEVICE, with a module whose index is unbound raises
\* E_MODULE; each time it returns lf_error and makes no endpoint call.
C16_InvokeChecks ==
    (hop.fn = "lf_invoke" /\ hpc # "idle") =>
        /\ (hop.module.ptr = NULL) =>
              (hpc = "returned" /\ hret = lf_error /\ herr = "E_NULL" /\ hlog = <<>>)
        /\ (hop.module.ptr # NULL /\ hop.module.device = NULL) =>
              (hpc = "returned" /\ hret = lf_error /\ herr = "E_NO_DEVICE" /\ hlog = <<>>)
        /\ (hop.module.ptr # NULL /\ hop.module.device # NULL /\ hop.module.index = 255) =>
              (hpc = "returned" /\ hret = lf_error /\ herr = "E_MODULE" /\ hlog = <<>>)
C16_Witness ==
    /\ hop.fn = "lf_invoke" /\ hpc = "returned" /\ hop.module.ptr # NULL
    /\ hop.module.device # NULL /\ hop.module.index = 255 /\ herr = "E_MODULE"

\* C17: the packet of lf_invoke has the user invocation class exactly when the
\* user bit of the module's index is set, the standard class otherwise, and
\* the index byte of the call is the module's index.
C17_ClassFromUserBit ==
    (hop.fn = "lf_invoke" /\ himg # <<>>) =>
        /\ himg[OFF_CLASS + 1] = IF (hop.module.index \div 128) % 2 = 1
                             THEN fmr_user_invocation_class
                             ELSE fmr_standard_invocation_class
        /\ himg[FMR_HEADER_SIZE + 1] = hop.module.index
C17_Witness ==
    /\ hop.fn = "lf_invoke" /\ himg # <<>> /\ hop.module.index >= 128
    /\ hlog # <<>> /\ ~hfail

\* C18: when the push of the packet of lf_invoke fails, E_ENDPOINT is raised,
\* lf_invoke returns lf_error and no Result is pulled.
C18_PushFailure ==
    (hop.fn = "lf_invoke" /\ hfail /\ Len(hlog) = 1) =>
        /\ hpc = "returned"
        /\ herr = "E_ENDPOINT"
        /\ hret = lf_error
        /\ ~hres.valid
C18_Witness == hop.fn = "lf_invoke" /\ hfail /\ Len(hlog) = 1 /\ hpc = "returned"

\* C19: when the pull of the Result of lf_invoke fails, E_ENDPOINT is raised
\* and lf_invoke returns lf_error, never a value of a Result it did not receive.
C19_PullFailure ==
    (hop.fn = "lf_invoke" /\ hpc = "returned" /\ Len(hlog) = 2 /\ ~hres.valid) =>
        /\ herr = "E_ENDPOINT"
        /\ hret = lf_error

\* C20: fmr_build of a list of lf_uint8 arguments succeeds for every count up
\* to and including FMR_MAX_ARGC, and fails with E_OVERFLOW only beyond it.
C20_MaxArgcAccepted ==
    (hop.fn = "fmr_build" /\ hpc \in {"built", "returned"} /\ himg = <<>> /\ hop.failAt = 0
       /\ \A i \in 1..Len(hop.args) : hop.args[i].type = fmr_int8_t) =>
        IF Len(hop.args) <= FMR_MAX_ARGC
        THEN /\ Len(hbuf) = Len(hop.args)
             /\ herr = "E_OK"
             /\ (hop.args # <<>>) => hret = ListAddress
        ELSE hret = Zeros(8) /\ herr = "E_OVERFLOW" /\ hbuf = <<>> /\ hpc = "returned"

\* Nibble k of the types word of the call in a packet image.
TypeNibble(img, k) ==
    IF k % 2 = 0
    THEN img[FMR_HEADER_SIZE + 5 + (k \div 2)] % 16
    ELSE img[FMR_HEADER_SIZE + 5 + (k \div 2)] \div 16

\* C21: fmr_build given an argument whose tag is not one of the wire tags
\* {0, 1, 2, 3, 4, 6, 7, 8, 9, 11, 15} fails with E_TYPE and returns no list.
C21_UnknownTagRejected ==
    (hop.fn = "fmr_build" /\ hpc \in {"built", "returned"} /\ hop.failAt = 0
       /\ Len(hop.args) < FMR_MAX_ARGC
       /\ \E i \in 1..Len(hop.args) :
             hop.args[i].type \notin {0, 1, 2, 3, 4, 6, 7, 8, 9, 11, 15}) =>
        /\ hpc = "returned"
        /\ himg = <<>>
        /\ hbuf = <<>>
        /\ hret = Zeros(8)
        /\ herr = "E_TYPE"

\* C22: fmr_build accepts every valid non-void tag, u64 (7) and the signed
\* tags (8, 9, 11, 15) included, and nibble i of the types word that
\* fmr_create_call writes equals the tag argument i was given.
C22_TagsKept ==
    (hop.fn = "fmr_build" /\ hpc = "returned" /\ hop.failAt = 0
       /\ hop.args # <<>> /\ Len(hop.args) <= 4
       /\ \A i \in 1..Len(hop.args) :
             hop.args[i].type \in {0, 1, 3, 4, 6, 7, 8, 9, 11, 15}) =>
        /\ himg # <<>>
        /\ herr = "E_OK"
        /\ \A i \in 1..Len(hop.args) : TypeNibble(himg, i - 1) = hop.args[i].type

\* C23: for a list that fmr_build made and whose parameters fit the packet,
\* fmr_create_call writes argc = the length of the list, the type of
\* argument i in nibble i of the types word (also for i >= 8), the bytes of
\* argument i at the offset that is the sum of the sizes of the arguments
\* before it, and adds the sum of all sizes to header.length.
C23_ArgumentsInListOrder ==
    (hop.fn = "fmr_build" /\ hpc = "returned" /\ himg # <<>>
       /\ Len(ParamBytes(hop.args, 1)) <= FMR_PACKET_SIZE - FMR_INVOCATION_SIZE) =>
        /\ himg[FMR_HEADER_SIZE + 4] = Len(hop.args)
        /\ Get16(himg, OFF_LENGTH) = FMR_INVOCATION_SIZE + Len(ParamBytes(hop.args, 1))
        /\ \A i \in 1..Len(hop.args) :
              /\ TypeNibble(himg, i - 1) = hop.args[i].type % 8
              /\ SubSeq(himg,
                        FMR_INVOCATION_SIZE + Len(ParamBytes(SubSeq(hop.args, 1, i - 1), 1)) + 1,
                        FMR_INVOCATION_SIZE + Len(ParamBytes(SubSeq(hop.args, 1, i), 1)))
                 = SubSeq(hop.args[i].value, 1, fmr_sizeof(hop.args[i].type))

\* C32: for every argument list fmr_create_call accepts, the parameter
\* bytes it writes stay inside the packet buffer of FMR_PACKET_SIZE bytes
\* and header.length does not exceed that size; a list that does not fit is
\* answered with lf_error and not written.
C32_ParametersFitPacket ==
    (hop.fn = "fmr_build" /\ hpc = "returned" /\ himg # <<>>) =>
        IF FMR_INVOCATION_SIZE + Len(ParamBytes(hop.args, 1)) <= FMR_PACKET_SIZE
        THEN /\ Len(himg) = FMR_PACKET_SIZE
             /\ Get16(himg, OFF_LENGTH) <= FMR_PACKET_SIZE
        ELSE hret = lf_error

\* C34: fmr_build returns either a list holding the argc arguments in the
\* order given, or NULL: when an argument is rejected part-way through, the
\* arguments appended before it are released and no partial list is left.
C34_AllOrNothing ==
    (hop.fn = "fmr_build" /\ hpc # "fmr_build" /\ himg = <<>>) =>
        \/ /\ hpc = "built"
           /\ hret = (IF hop.args = <<>> THEN Zeros(8) ELSE ListAddress)
           /\ Len(hbuf) = Len(hop.args)
           /\ \A i \in DOMAIN hbuf : hbuf[i].value = hop.args[i].value
        \/ /\ hpc = "returned"
           /\ hret = Zeros(8)
           /\ hbuf = <<>>

\* C24: for the signed return types i8 (8), i16 (9) and i32 (11), a call that
\* reached the entry point returns the value the entry point left, sign-
\* extended to 64 bits: i16 with raw bits 0xFFFF gives eight bytes of 0xFF.
C24_SignedReturnExtended ==
    (dpc = "fmr_call_returned" /\ dlog[1].ret \in {8, 9, 11} /\ Events("icall") # {}) =>
        LET raw == dlog[1].raw
            bytes == CASE dlog[1].ret = 8 -> <<raw[7]>>
                       [] dlog[1].ret = 9 -> <<raw[7], raw[8]>>
                       [] dlog[1].ret = 11 -> <<raw[5], raw[6], raw[7], raw[8]>>
        IN  result.value =
                bytes \o SubSeq([k \in 1..8 |-> IF bytes[Len(bytes)] >= 128 THEN 255 ELSE 0],
                                1, 8 - Len(bytes))

\* C25: for the unsigned return types u8 (0), u16 (1) and u32 (3), a call that
\* reached the entry point returns the value the entry point left, with
\* every byte above its width zero; for void (2) it returns 0.
C25_UnsignedReturnExtended ==
    (dpc = "fmr_call_returned" /\ dlog[1].ret \in {0, 1, 2, 3} /\ Events("icall") # {}) =>
        LET raw == dlog[1].raw
            bytes == CASE dlog[1].ret = 0 -> <<raw[7]>>
                       [] dlog[1].ret = 1 -> <<raw[7], raw[8]>>
                       [] dlog[1].ret = 2 -> <<>>
                       [] dlog[1].ret = 3 -> <<raw[5], raw[6], raw[7], raw[8]>>
        IN  result.value = bytes \o Zeros(8 - Len(bytes))

\* C26: when the unpacking of the arguments meets a type without a case or a
\* 64-bit argument, fmr_call does not call the entry point and returns to its
\* caller with r18..r25 all ones.
C26_LoadFailureReturnsSentinel ==
    (dpc \in {"fmr_call_returned", "lost"}
       /\ fmr_call_load(dlog[1].argc, dlog[1].argt, CallParameters, 0, 25, <<>>).fail) =>
        /\ Events("icall") = {}
        /\ result.value = Ones(8)
        /\ dpc = "fmr_call_returned"

\* C37: lf_push, lf_pull, lf_send, lf_recieve and lf_ram_load called with a
\* NULL data buffer raise E_NULL, return their failure value and make no
\* endpoint call.
C37_NullBufferRejected ==
    (/\ hop.fn \in {"lf_push", "lf_pull", "lf_send", "lf_recieve", "lf_ram_load"}
     /\ hop.buffer = NULL /\ hpc # "idle") =>
        /\ hpc = "returned"
        /\ herr = "E_NULL"
        /\ hret = (IF hop.fn \in {"lf_send", "lf_recieve"} THEN Zeros(8) ELSE lf_error)
        /\ hlog = <<>>

\* C31: on every path through fmr_call (normal return, failure while the
\* arguments are unpacked, failure on a return type without a case) what is
\* popped is what was pushed: `ret` takes the caller's return address and
\* r3 (argc), r4 (argt_l) and r5 (argt_h) get back their own saved values.
C31_StackBalanced ==
    \A i \in Events("ret") :
        /\ dlog[i].target = <<"pc_l", "pc_h">>
        /\ dlog[i].r3 = "r3" /\ dlog[i].r4 = "r4" /\ dlog[i].r5 = "r5"

RECURSIVE PackedBytes(_, _, _, _)
\* The bytes of argc arguments read from argv at offset z when each type
\* takes 1, 2 or 4 bytes by its width and int and ptr take 2.
PackedBytes(argc, argt, argv, z) ==
    IF argc = 0 THEN <<>>
    ELSE CHOOSE r \in
           {SubSeq(argv, z + 1, z + n) \o PackedBytes(argc - 1, argt \div 16, argv, z + n) :
            n \in {CASE argt % 8 = 0 -> 1 [] argt % 8 = 3 -> 4 [] OTHER -> 2}} : TRUE

\* C33: while unpacking, fmr_call advances through the packed bytes by the
\* size of each argument (1, 2, 4 bytes; 2 for int and ptr), so the bytes
\* passed to the entry point are those at the offsets fmr_create_call wrote:
\* argument i starts at the sum of the sizes of the arguments before it.
C33_UnpackAdvancesBySize ==
    \A i \in Events("icall") :
        SubSeq([k \in 1..Len(dlog[i].passed) |-> dlog[i].passed[k][2]],
               1, Len(dlog[i].passed))
        = PackedBytes(dlog[1].argc, dlog[1].argt, CallParameters, 0)

-----------------------------------------------------------------------------
(* fmr_execute and the registry.                                           *)

\* C27: fmr_execute with a module index or a function index outside the
\* populated range of the registry raises E_NULL and returns the error
\* sentinel without a call; an entry point is called only when it is the one
\* registered at (module, function).
C27_OutOfRangeRaisesNull ==
    \A i \in Events("fmr_execute") :
        LET c == dlog[i].call
            populated == /\ c.index + 1 \in DOMAIN fmr_modules
                         /\ c.function + 1 \in DOMAIN fmr_modules[c.index + 1]
        IN  /\ ~populated =>
                  /\ dlog[i].called = NULL
                  /\ Handling => result.value = Ones(8) /\ result.error = "E_NULL"
            /\ dlog[i].called # NULL =>
                  populated /\ dlog[i].called = fmr_modules[c.index + 1][c.function + 1]

-----------------------------------------------------------------------------
(* The host library: attaching, selecting and detaching devices, and        *)
(* binding a module to its counterpart on the device.                       *)

MaxCalls == 3

\* The addresses calloc can hand out for a device record.
DeviceAddresses == {"d1", "d2"}

\* The names given to attach: "f", and a name of 17 characters.
DeviceNames == {<<102>>, SubSeq([k \in 1..17 |-> 120], 1, 17)}

\* What calloc can return: NULL, or an address that holds no live record.
CallocOutcomes == {NULL} \cup (DeviceAddresses \ DOMAIN attached)

\* `f` with the record at address `a` added, and with it removed.
WithRecord(f, a, rec) == [x \in DOMAIN f \cup {a} |-> IF x = a THEN rec ELSE f[x]]
WithoutRecord(f, a) == [x \in DOMAIN f \ {a} |-> f[x]]

\* lf_create_device(name) with calloc returning `mem`: [device, record, slot].
lf_create_device(name, mem, slot) ==
    IF mem = NULL
    THEN [device |-> NULL, record |-> <<>>, slot |-> lf_error_raise(slot, "E_MALLOC")]
    ELSE IF Len(name) > 16
    THEN [device |-> NULL, record |-> <<>>, slot |-> lf_error_raise(slot, "E_NAME")]
    ELSE [device |-> mem,
          record |-> [name |-> name, identifier |-> lf_crc(name, Len(name)),
                      endpoint |-> NULL],
          slot |-> slot]

\* flipper_detach that frees the record and keeps the selection.
flipper_detach_keeping(device, selected, records, slot) ==
    IF device = NULL
    THEN [selected |-> selected, records |-> records, ret |-> "lf_error",
          slot |-> lf_error_raise(slot, "E_NULL")]
    ELSE [selected |-> selected,
          records |-> WithoutRecord(records, device), ret |-> "lf_success", slot |-> slot]

\* flipper_detach(device): [selected, records, ret, slot].
flipper_detach(device, selected, records, slot) ==
    IF device = NULL
    THEN [selected |-> selected, records |-> records, ret |-> "lf_error",
          slot |-> lf_error_raise(slot, "E_NULL")]
    ELSE [selected |-> IF device = selected THEN NULL ELSE selected,
          records |-> WithoutRecord(records, device), ret |-> "lf_success", slot |-> slot]

\* The variables no library call touches.
LibFrame ==
    UNCHANGED <<hpc, hop, himg, hlog, hfail, hres, hret, hbuf, hcfg, opsDone, unanswered,
                h2d, d2h, marks, devVars, fld_modules, fmr_module_is_signed>>

\* flipper_attach_usb that leaves the selection as flipper_detach left it
\* when the configuration fails.
flipper_attach_usb_unrestored ==
    /\ Len(lcalls) < MaxCalls
    /\ \E name \in DeviceNames, mem \in CallocOutcomes :
       \E c \in {lf_create_device(name, mem, herr)} :
          LET _device == flipper.device
              rec == [c.record EXCEPT !.endpoint = "lf_bridge_ep"]
              d == flipper_detach(c.device, c.device,
                                  WithRecord(attached, c.device, rec),
                                  lf_error_raise(c.slot, "E_ENDPOINT"))
          IN  \E configured \in BOOLEAN :
              /\ IF c.device = NULL
                 THEN /\ herr' = c.slot
                      /\ UNCHANGED <<flipper, attached>>
                 ELSE IF ~configured
                 THEN /\ herr' = d.slot
                      /\ attached' = d.records
                      /\ flipper' = [flipper EXCEPT !.device = d.selected]
                 ELSE /\ herr' = c.slot
                      /\ attached' = WithRecord(attached, c.device, rec)
                      /\ flipper' = [flipper EXCEPT !.device = c.device]
              /\ lcalls' = Append(lcalls,
                    [fn |-> "flipper_attach_usb", selected |-> _device,
                     ret |-> IF c.device # NULL /\ configured THEN c.device ELSE NULL])
    /\ UNCHANGED i2c
    /\ LibFrame

\* flipper_attach_usb(name), which flipper_attach() calls with the default
\* name. `configured` is whether the bridge endpoint's configure succeeds.
flipper_attach_usb ==
    /\ Len(lcalls) < MaxCalls
    /\ \E name \in DeviceNames, mem \in CallocOutcomes :
       \E c \in {lf_create_device(name, mem, herr)} :
          LET _device == flipper.device
              rec == [c.record EXCEPT !.endpoint = "lf_bridge_ep"]
              d == flipper_detach(c.device, c.device,
                                  WithRecord(attached, c.device, rec),
                                  lf_error_raise(c.slot, "E_ENDPOINT"))
          IN  \E configured \in BOOLEAN :
              /\ IF c.device = NULL
                 THEN /\ herr' = c.slot
                      /\ UNCHANGED <<flipper, attached>>
                 ELSE IF ~configured
                 THEN /\ herr' = d.slot
                      /\ attached' = d.records
                      /\ flipper' = [flipper EXCEPT !.device = _device]
                 ELSE /\ herr' = c.slot
                      /\ attached' = WithRecord(attached, c.device, rec)
                      /\ flipper' = [flipper EXCEPT !.device = c.device]
              /\ lcalls' = Append(lcalls,
                    [fn |-> "flipper_attach_usb", selected |-> _device,
                     ret |-> IF c.device # NULL /\ configured THEN c.device ELSE NULL])
    /\ UNCHANGED i2c
    /\ LibFrame

\* flipper_attach_network(name, hostname).
flipper_attach_network ==
    /\ Len(lcalls) < MaxCalls
    /\ \E name \in DeviceNames, mem \in CallocOutcomes :
       \E c \in {lf_create_device(name, mem, herr)} :
          LET rec == [c.record EXCEPT !.endpoint = "lf_network_ep"]
              d == flipper_detach(c.device, flipper.device,
                                  WithRecord(attached, c.device, rec),
                                  lf_error_raise(c.slot, "E_ENDPOINT"))
          IN  \E configured \in BOOLEAN :
              /\ IF c.device = NULL
                 THEN /\ herr' = c.slot
                      /\ UNCHANGED <<flipper, attached>>
                 ELSE IF ~configured
                 THEN /\ herr' = d.slot
                      /\ attached' = d.records
                      /\ flipper' = [flipper EXCEPT !.device = d.selected]
                 ELSE /\ herr' = c.slot
                      /\ attached' = WithRecord(attached, c.device, rec)
                      /\ flipper' = [flipper EXCEPT !.device = c.device]
              /\ lcalls' = Append(lcalls,
                    [fn |-> "flipper_attach_network", selected |-> flipper.device,
                     ret |-> IF c.device # NULL /\ configured THEN c.device ELSE NULL])
    /\ UNCHANGED i2c
    /\ LibFrame

\* flipper_attach_endpoint(name, endpoint).
flipper_attach_endpoint ==
    /\ Len(lcalls) < MaxCalls
    /\ \E name \in DeviceNames, mem \in CallocOutcomes :
       \E c \in {lf_create_device(name, mem, herr)} :
              /\ herr' = c.slot
              /\ IF c.device = NULL
                 THEN UNCHANGED <<flipper, attached>>
                 ELSE /\ attached' = WithRecord(attached, c.device,
                                                [c.record EXCEPT !.endpoint = "endpoint"])
                      /\ flipper' = [flipper EXCEPT !.device = c.device]
              /\ lcalls' = Append(lcalls,
                    [fn |-> "flipper_attach_endpoint", selected |-> flipper.device,
                     ret |-> c.device])
    /\ UNCHANGED i2c
    /\ LibFrame

\* flipper_select(device), called with NULL or with an attached device.
flipper_select ==
    /\ Len(lcalls) < MaxCalls
    /\ \E device \in {NULL} \cup DOMAIN attached :
          /\ IF device = NULL
             THEN /\ herr' = lf_error_raise(herr, "E_NULL")
                  /\ UNCHANGED flipper
             ELSE /\ flipper' = [flipper EXCEPT !.device = device]
                  /\ UNCHANGED herr
          /\ lcalls' = Append(lcalls,
                [fn |-> "flipper_select", selected |-> flipper.device, device |-> device,
                 ret |-> IF device = NULL THEN "lf_error" ELSE "lf_success"])
    /\ UNCHANGED <<attached, i2c>>
    /\ LibFrame

\* flipper_detach(device), called with NULL or with an attached device.
flipper_detach_call ==
    /\ Len(lcalls) < MaxCalls
    /\ \E device \in {NULL} \cup DOMAIN attached :
          LET d == flipper_detach(device, flipper.device, attached, herr)
          IN  /\ herr' = d.slot
              /\ flipper' = [flipper EXCEPT !.device = d.selected]
              /\ attached' = d.records
              /\ lcalls' = Append(lcalls,
                    [fn |-> "flipper_detach", selected |-> flipper.device,
                     device |-> device, ret |-> d.ret])
    /\ UNCHANGED i2c
    /\ LibFrame

\* flipper_exit(): frees the selected device; flipper.device is left as it is.
flipper_exit ==
    /\ Len(lcalls) < MaxCalls
    /\ attached' = IF flipper.device # NULL THEN WithoutRecord(attached, flipper.device)
                   ELSE attached
    /\ lcalls' = Append(lcalls, [fn |-> "flipper_exit", selected |-> flipper.device,
                                 ret |-> "lf_success"])
    /\ UNCHANGED <<herr, flipper, i2c>>
    /\ LibFrame

\* fld_index(identifier): the position of the identifier in the loader
\* table, -1 when it holds no such module.
fld_index(table, identifier) ==
    IF \E k \in DOMAIN table : table[k] = identifier
    THEN (CHOOSE k \in DOMAIN table : table[k] = identifier) - 1
    ELSE -1

\* lf_bind that refuses a module whose device is already set and unsets it.
lf_bind_toggling(module, table, signed, slot) ==
    IF module.ptr = NULL
    THEN [module |-> module, ret |-> "lf_error", slot |-> lf_error_raise(slot, "E_NULL")]
    ELSE LET identifier == lf_crc(module.name \o <<0>>, Len(module.name) + 1)
             found == fld_index(table, identifier)
             index == IF found = -1 THEN (IF signed THEN -1 ELSE 255)
                      ELSE Or(found % 256, FMR_USER_INVOCATION_BIT, 8)
         IN  IF index = -1 /\ module.device = NULL
             THEN [module |-> [module EXCEPT !.identifier = identifier,
                                             !.index = index % 256,
                                             !.device = "&flipper.device"],
                   ret |-> "lf_success", slot |-> slot]
             ELSE [module |-> [module EXCEPT !.device = NULL], ret |-> "lf_error",
                   slot |-> lf_error_raise(slot, "E_MODULE")]

\* lf_bind(module): [module, ret, slot]. `index` is fld_index(identifier) |
\* FMR_USER_INVOCATION_BIT held in an fmr_module: -1 stays -1 in a signed
\* type and is 255 in an unsigned one. lf_assert(index == -1, ...) takes the
\* failure exit when index is not -1.
lf_bind(module, table, signed, slot) ==
    IF module.ptr = NULL
    THEN [module |-> module, ret |-> "lf_error", slot |-> lf_error_raise(slot, "E_NULL")]
    ELSE LET identifier == lf_crc(module.name \o <<0>>, Len(module.name) + 1)
             found == fld_index(table, identifier)
             index == IF found = -1 THEN (IF signed THEN -1 ELSE 255)
                      ELSE Or(found % 256, FMR_USER_INVOCATION_BIT, 8)
         IN  IF index = -1
             THEN [module |-> [module EXCEPT !.identifier = identifier,
                                             !.index = index % 256,
                                             !.device = "&flipper.device"],
                   ret |-> "lf_success", slot |-> slot]
             ELSE [module |-> module, ret |-> "lf_error",
                   slot |-> lf_error_raise(slot, "E_MODULE")]

\* lf_bind(&i2c) and lf_bind(NULL).
lf_bind_call ==
    /\ Len(lcalls) < MaxCalls
    /\ \E given \in BOOLEAN :
       \E b \in {lf_bind(IF given THEN i2c ELSE [i2c EXCEPT !.ptr = NULL], fld_modules,
                         fmr_module_is_signed, herr)} :
              /\ herr' = b.slot
              /\ i2c' = IF given THEN b.module ELSE i2c
              /\ lcalls' = Append(lcalls,
                    [fn |-> "lf_bind", selected |-> flipper.device, given |-> given,
                     before |-> i2c, after |-> IF given THEN b.module ELSE i2c,
                     ret |-> b.ret])
    /\ UNCHANGED <<flipper, attached>>
    /\ LibFrame

\* The loader tables a device can hold: empty, without the module, with it.
LoaderTables ==
    {<<>>,
     <<lf_crc(<<113, 117, 120, 0>>, 4)>>,
     <<lf_crc(<<113, 117, 120, 0>>, 4), lf_crc(<<105, 50, 99, 0>>, 4)>>}

LibInit ==
    /\ hpc = "idle"
    /\ hop = NoOp
    /\ himg = <<>>
    /\ hlog = <<>>
    /\ hfail = FALSE
    /\ herr = "E_OK"
    /\ hres = NoResult
    /\ hret = Zeros(8)
    /\ hbuf = <<>>
    /\ hcfg = InitialConfiguration
    /\ opsDone = 0
    /\ unanswered = 0
    /\ DevInit
    /\ h2d = <<>>
    /\ d2h = <<>>
    /\ marks = {}
    /\ flipper = [device |-> NULL]
    /\ attached = [a \in {} |-> NULL]
    /\ i2c = [ptr |-> "i2c", name |-> <<105, 50, 99>>, identifier |-> 0,
                 index |-> 255, device |-> NULL]
    /\ fld_modules \in LoaderTables
    /\ fmr_module_is_signed \in BOOLEAN
    /\ lcalls = <<>>

LibNext ==
    \/ flipper_attach_usb
    \/ flipper_attach_network
    \/ flipper_attach_endpoint
    \/ flipper_select
    \/ flipper_detach_call
    \/ flipper_exit
    \/ lf_bind_call

SpecLib == LibInit /\ [][LibNext]_vars

Calls(fn) == {i \in DOMAIN lcalls : lcalls[i].fn = fn}
Binds == {i \in Calls("lf_bind") : lcalls[i].given}

\* C28: lf_bind succeeds exactly when the loader table holds a module with
\* the identifier of the name; on success the module records the CRC of the
\* name with its NUL, the loader's index with the user-invocation bit set,
\* and the selected-device slot; without a counterpart it fails with
\* E_MODULE and leaves the module as it was.
C28_BindFollowsLoaderTable ==
    \A i \in Binds :
        LET c == lcalls[i]
            identifier == lf_crc(c.before.name \o <<0>>, Len(c.before.name) + 1)
            found == fld_index(fld_modules, identifier)
        IN  /\ (c.ret = "lf_success") = (found # -1)
            /\ found # -1 =>
                  c.after = [c.before EXCEPT !.identifier = identifier,
                                             !.index = found + FMR_USER_INVOCATION_BIT,
                                             !.device = "&flipper.device"]
            /\ found = -1 =>
                  /\ c.after = c.before
                  /\ (i = Len(lcalls) => herr = "E_MODULE")

\* C29: binding the same module twice against the same loader table gives
\* the same outcome and the same module record: a later lf_bind leaves the
\* record as the first one left it.
C29_BindIdempotent ==
    \A i, j \in Binds :
        i < j => lcalls[j].ret = lcalls[i].ret /\ lcalls[j].after = lcalls[i].after
C29_Witness ==
    \E i, j \in Binds : i < j /\ lcalls[i].ret = "lf_success" /\ i2c.device # NULL

\* C30: after any sequence of attach, select and detach calls the selected
\* device is none or a device that is attached; detaching the selected
\* device clears the selection.
C30_SelectionIsAttached ==
    Calls("flipper_exit") = {} =>
        /\ flipper.device \in {NULL} \cup DOMAIN attached
        /\ \A i \in Calls("flipper_detach") :
              (i = Len(lcalls) /\ lcalls[i].device = lcalls[i].selected)
                  => flipper.device = NULL
C30_Witness ==
    /\ Calls("flipper_exit") = {}
    /\ Len(lcalls) = 3
    /\ lcalls[3].fn = "flipper_detach" /\ lcalls[3].device = lcalls[3].selected
    /\ lcalls[3].device # NULL
    /\ DOMAIN attached # {}

-----------------------------------------------------------------------------
(* lf_load_configuration alone: the endpoint answers with whatever its     *)
(* peer sends.                                                             *)

\* Configuration records a peer may send: name, identifier, version.
ConfigurationReplies ==
    {<<n>> \o Zeros(15) \o id \o <<v, 0, 0>> :
        n \in {0, 102}, id \in {DeviceIdentifier, <<19, 0>>, <<0, 199>>}, v \in {0, 1}}

\* Results a peer may send after the record.
ResultReplies ==
    {ResultBytes([value |-> Zeros(8), error |-> e]) : e \in {"E_OK", "E_MODULE"}}

\* What the endpoint has to give: a record, with or without a Result.
EndpointReplies ==
    ConfigurationReplies \cup {c \o r : c \in ConfigurationReplies, r \in ResultReplies}

ConfigInit ==
    /\ HostInit
    /\ DevInit
    /\ h2d = <<>>
    /\ d2h \in EndpointReplies
    /\ marks = {}

ConfigNext ==
    \/ lf_load_configuration \/ lf_load_configuration_pull \/ lf_load_configuration_result
    \/ caller_continue

SpecConfig == ConfigInit /\ [][ConfigNext]_vars

\* C36: lf_load_configuration overwrites the stored configuration only when
\* the packet push, the Configuration pull and the Result have all succeeded
\* and the identifier pulled equals the stored one, and then with the record
\* pulled; on an identifier mismatch it raises E_NO_DEVICE, returns lf_error
\* and leaves the stored configuration as it was.
C36_ConfigurationOverwrite ==
    [][/\ (hcfg' # hcfg) =>
            /\ hpc = "lf_load_configuration_result" /\ hpc' = "returned"
            /\ hlog' = <<EpCall("push", "packet", FMR_PACKET_SIZE),
                         EpCall("pull", "configuration", LF_CONFIGURATION_SIZE),
                         EpCall("pull", "result", FMR_RESULT_SIZE)>>
            /\ ~hfail'
            /\ hres'.valid /\ hres'.error = "E_OK"
            /\ IdentifierOf(hbuf) = IdentifierOf(hcfg)
            /\ hcfg' = hbuf
            /\ hret' = lf_success
       /\ (/\ hpc = "lf_load_configuration_result" /\ hpc' = "returned"
           /\ hres'.valid /\ hres'.error = "E_OK"
           /\ IdentifierOf(hbuf) # IdentifierOf(hcfg)) =>
            /\ herr' = "E_NO_DEVICE"
            /\ hret' = lf_error
            /\ hcfg' = hcfg]_vars
C36_Witness ==
    /\ hop.fn = "lf_load_configuration" /\ hpc = "returned"
    /\ hret = lf_success
    /\ hcfg = hbuf /\ hcfg # InitialConfiguration
C36_WitnessMismatch ==
    /\ hop.fn = "lf_load_configuration" /\ hpc = "returned"
    /\ hret = lf_error /\ herr = "E_NO_DEVICE"
    /\ hres.valid /\ hcfg = InitialConfiguration
    /\ IdentifierOf(hbuf) = <<19, 0>>

-----------------------------------------------------------------------------
(* lf_module_create of the runtime: the module record and the block that   *)
(* is allocated for its name.                                              *)

MaxCreates == 2

\* sizeof(char *) of the build.
PointerWidths == {4, 8}

\* The names given to lf_module_create: none, and strings of 0 to 16 bytes.
ModuleNames ==
    {[ptr |-> NULL, bytes |-> <<>>]}
    \cup {[ptr |-> "name", bytes |-> SubSeq([k \in 1..n |-> 96 + k], 1, n)] :
             n \in {0, 3, 8, 15, 16}}

NoModuleRecord == [name |-> <<>>, past |-> <<>>, idx |-> 0]
NoBlock == [address |-> <<>>, bytes |-> <<>>]

\* The address malloc gives the block of the name.
BlockAddress(width) == LE(4128, width)

\* The first n bytes of `bytes` laid over `field`.
Overlay(field, bytes, n) == SubSeq(bytes, 1, n) \o SubSeq(field, n + 1, Len(field))

\* lf_module_create(name, idx): calloc gives `mem`, malloc gives a block
\* (holding `fill`) or NULL, pointers are `width` bytes wide. The record
\* holds the bytes of its name field, the bytes written past that field, and
\* idx. Gives [ret, module, block, slot].
lf_module_create(name, idx, mem, gotBlock, fill, width, slot) ==
    IF name.ptr = NULL
    THEN [ret |-> NULL, module |-> NoModuleRecord, block |-> NoBlock,
          slot |-> lf_error_raise(slot, "E_NULL")]
    ELSE IF ~(Len(name.bytes) < 16)
    THEN [ret |-> NULL, module |-> NoModuleRecord, block |-> NoBlock,
          slot |-> lf_error_raise(slot, "E_OVERFLOW")]
    ELSE IF mem = NULL
    THEN [ret |-> NULL, module |-> NoModuleRecord, block |-> NoBlock,
          slot |-> lf_error_raise(slot, "E_MALLOC")]
    ELSE LET string == name.bytes \o <<0>>
             len == Len(string)
             address == IF gotBlock THEN BlockAddress(width) ELSE Zeros(width)
             within == IF len < width THEN len ELSE width
         IN  [ret |-> mem,
              module |-> [name |-> Overlay(address, string, within),
                          past |-> SubSeq(string, within + 1, len),
                          idx |-> idx],
              block |-> IF gotBlock
                        THEN [address |-> address,
                              bytes |-> SubSeq([k \in 1..len |-> fill], 1, len)]
                        ELSE NoBlock,
              slot |-> slot]

lf_module_create_call ==
    /\ Len(lcalls) < MaxCreates
    /\ \E name \in ModuleNames, idx \in {0, 1}, mem \in {NULL, "module"},
          gotBlock \in BOOLEAN, fill \in {0, 170}, width \in PointerWidths :
       \E c \in {lf_module_create(name, idx, mem, gotBlock, fill, width, herr)} :
          /\ herr' = c.slot
          /\ lcalls' = Append(lcalls,
                [fn |-> "lf_module_create", selected |-> flipper.device, name |-> name,
                 idx |-> idx, width |-> width, ret |-> c.ret, module |-> c.module,
                 block |-> c.block, err |-> c.slot])
    /\ UNCHANGED <<flipper, attached, i2c>>
    /\ LibFrame

ModuleNext == lf_module_create_call

SpecModule == LibInit /\ [][ModuleNext]_vars

\* C38: lf_module_create(name, idx) rejects a name of 16 or more bytes with
\* E_OVERFLOW and returns no module; a module it returns, malloc having given
\* a block, has as its name the address of that block, the block holds the
\* string with its NUL, nothing is written past the name field, and idx is
\* the given index.
C38_ModuleHoldsName ==
    \A i \in Calls("lf_module_create") :
        LET c == lcalls[i]
        IN  IF c.name.ptr # NULL /\ Len(c.name.bytes) >= 16
            THEN c.ret = NULL /\ c.err = "E_OVERFLOW"
            ELSE (c.ret # NULL /\ c.block # NoBlock) =>
                    /\ c.module.name = c.block.address
                    /\ c.block.bytes = c.name.bytes \o <<0>>
                    /\ c.module.past = <<>>
                    /\ c.module.idx = c.idx

====
